---- MODULE Spec2Model ----
(***************************************************************************)
(* Verification model of asrc-rs-research: the ALSA stream loops           *)
(* alsa_asrc_loopback (SpecBridge), alsa_audio_time (SpecTime) and         *)
(* alsa_simple_loopback (SpecSimple), and the filter of the offline drift  *)
(* analysis, dsp (SpecDsp).                                                *)
(*                                                                         *)
(* Each program is a state machine of its own, with its own variables and  *)
(* its own specification.  A specification keeps the variables of the      *)
(* other programs at their idle values.                                    *)
(*                                                                         *)
(* Samples are modelled as integers.  Frames read from a capture device    *)
(* are numbered 1, 2, 3, ... in the order the device delivers them, so a   *)
(* lost, repeated or reordered sample shows in the sequences; 0 is the     *)
(* value vec![0; n] fills a fresh buffer with.                             *)
(***************************************************************************)
EXTENDS Integers, Sequences, FiniteSets, TLC

(***************************************************************************)
(* Bounds of the model.                                                    *)
(***************************************************************************)
\* Capacity of the ring buffer.  The program builds SpscRb::new(4096)
\* (alsa_asrc_loopback.rs:84); the model scales the capacity down together
\* with the period sizes.
RbCapacity == 4
\* Largest negotiated period size (frames) a device hands back.
MaxPeriod == 2
\* Largest channel count.
MaxChannels == 2
\* Number of samples the capture device of the threaded loopback delivers.
MaxSamples == 6

Min(a, b) == IF a < b THEN a ELSE b

\* vec![0; n]
Zeros(n) == [i \in 1..n |-> 0]

\* The first n elements of s
Take(s, n) == SubSeq(s, 1, n)

\* s without its first n elements
Drop(s, n) == SubSeq(s, n + 1, Len(s))

(***************************************************************************)
(* Exact fractions [num, den], den > 0, in lowest terms: the f64 values of *)
(* the filter.  The model keeps the operations of the code and their order *)
(* and leaves floating-point rounding out.                                 *)
(***************************************************************************)
Abs(n) == IF n < 0 THEN 0 - n ELSE n

RECURSIVE Gcd(_, _)
Gcd(a, b) == IF b = 0 THEN a ELSE Gcd(b, a % b)

\* n / d in lowest terms, d # 0
QNorm(n, d) ==
  LET g == Gcd(Abs(n), Abs(d))
  IN IF d < 0 THEN [num |-> (0 - n) \div g, den |-> (0 - d) \div g]
     ELSE [num |-> n \div g, den |-> d \div g]

\* The integer n
Q(n) == [num |-> n, den |-> 1]
QAdd(x, y) ==
  LET g == Gcd(x.den, y.den)
  IN QNorm((x.num * (y.den \div g)) + (y.num * (x.den \div g)), (x.den \div g) * y.den)
QNeg(x) == [num |-> 0 - x.num, den |-> x.den]
QSub(x, y) == QAdd(x, QNeg(y))
QMul(x, y) ==
  LET g == Gcd(Abs(x.num), y.den)
      h == Gcd(Abs(y.num), x.den)
  IN [num |-> (x.num \div g) * (y.num \div h), den |-> (x.den \div h) * (y.den \div g)]
\* x / y, y # 0
QDiv(x, y) == QNorm(x.num * y.den, x.den * y.num)
QLess(x, y) == x.num * y.den < y.num * x.den
QAbs(x) == [num |-> Abs(x.num), den |-> x.den]

\* vec![0.0; n]
ZerosF64(n) == [i \in 1..n |-> Q(0)]

(***************************************************************************)
(* alsa_asrc_loopback: capture thread -> SpscRb -> playback thread         *)
(***************************************************************************)
VARIABLES
  hw_c,        \* capture session: [period_size, channels] read back from the device
  hw_p,        \* playback session: [period_size, channels] read back from the device
  rb,          \* content of the ring buffer, oldest sample first
  buf_c,       \* capture thread's buf
  buf_p,       \* playback thread's buf
  pc_c,        \* capture thread: "elevate", "readi", "write", "panicked"
  pc_p,        \* playback thread: "elevate", "read_blocking", "writei", "panicked"
  why_c,       \* what ended the capture thread: "none", "sched", "transfer", "bridge"
  why_p,       \* what ended the playback thread
  process,     \* "running" or "exited"
  sched_c,     \* scheduling policy of the capture thread: "other", "fifo"
  sched_p,     \* scheduling policy of the playback thread
  next_sample, \* number of the next frame sample the capture device delivers
  wr_res,      \* result of the last prod.write: "none", "Ok", "Full"
  wr_cnt,      \* count the last prod.write returned
  size,        \* count the last cons.read_blocking returned
  passed,      \* history: samples handed to prod.write calls that returned Ok
  obtained,    \* history: samples cons.read_blocking copied out of the ring
  played       \* history: samples handed to the playback device by io.writei

varsBridge == <<hw_c, hw_p, rb, buf_c, buf_p, pc_c, pc_p, why_c, why_p, process,
                sched_c, sched_p, next_sample, wr_res, wr_cnt, size, passed, obtained,
                played>>

None == [none |-> TRUE]

VARIABLES
  flag_capture,   \* args.flag_capture: handle_c is Some
  flag_playback,  \* args.flag_playback: handle_p is Some
  has_out,        \* out_file is Some
  period_size,    \* args.flag_period_size, the requested period size
  periods,        \* args.flag_periods, the requested period count
  act_c,          \* period size the capture device negotiated
  act_p,          \* period size the playback device negotiated
  at_pc,          \* "elevate", "c_wait", "c_read", "p_write", "panicked"
  at_sched,       \* scheduling policy of the thread: "other", "fifo"
  xruns_c,
  xruns_p,
  frames_count_c,
  frames_count_p,
  last_status_c,  \* None or a PreviousStatus
  last_status_p,
  out_file,       \* the lines written to the output file
  now,            \* system clock
  calls,          \* device calls made so far
  events,         \* history: the transfers and recoveries of the loop, in order,
                  \* with the clock tick and the delay of every status snapshot
                  \* handed to write_timestamp_capture
  xfers           \* history: [dir, len, period_size, channels] of every transfer call

varsTime == <<flag_capture, flag_playback, has_out, period_size, periods, act_c, act_p,
              at_pc, at_sched, xruns_c, xruns_p, frames_count_c, frames_count_p,
              last_status_c, last_status_p, out_file, now, calls, events, xfers>>

VARIABLES
  sl_hw_c,       \* capture session: [period_size, channels] read back from the device
  sl_hw_p,       \* playback session: [period_size, channels] read back from the device
  sl_buf,        \* buf, the one transfer buffer of the loop
  sl_pc,         \* "elevate", "c_state", "c_read", "p_state", "p_write", "panicked"
  sl_sched,      \* scheduling policy of the thread: "other", "fifo"
  sl_state_c,    \* state of the capture device: "Prepared", "Running", "XRun"
  sl_state_p,    \* state of the playback device
  sl_reports_c,  \* number of "Prepare capture" lines on stderr
  sl_reports_p,  \* number of "Prepare playback" lines on stderr
  sl_prepares_c, \* history: number of pcm_capture.prepare() calls that returned Ok
  sl_prepares_p, \* history: number of pcm_playback.prepare() calls that returned Ok
  sl_next,       \* number of the next frame sample the capture device delivers
  sl_read_ok,    \* history: the readi of the current iteration returned Ok
  sl_played,     \* history: the buffers handed to io_playback.writei, with sl_read_ok
  sl_xfers,      \* history: [dir, len, period_size, channels] of every transfer call
  sl_calls       \* device transfer calls made so far

varsSimple == <<sl_hw_c, sl_hw_p, sl_buf, sl_pc, sl_sched, sl_state_c, sl_state_p, sl_reports_c,
                sl_reports_p, sl_prepares_c, sl_prepares_p, sl_next, sl_read_ok,
                sl_played, sl_xfers, sl_calls>>

VARIABLES
  bq,         \* the Biquad: coefficients b0 b1 b2 a1 a2 and delay line x1 x2 y1 y2
  coefs,      \* history: the coefficients the filter was built with
  d_input,    \* input of the last iir call
  d_prealloc, \* output slice handed to the last iir call, as the caller allocated it
  d_output,   \* the same slice after the call
  d_ret,      \* what the last iir call gave back to its caller: "none" before the
              \* first call, "unit" for a plain return, "failure" for an Err or a panic
  d_phase,    \* "new", "filtered", "reset", "filtered_after_reset"
  d_calls,    \* iir calls made so far
  d_dirty,    \* history: the delay line was not all zero when reset was last called
  d_chain     \* history: the last two iir calls that ran their loop, none since a reset

varsDsp == <<bq, coefs, d_input, d_prealloc, d_output, d_ret, d_phase, d_calls, d_dirty,
            d_chain>>

VARIABLES
  sp_data,   \* data, the series handed to get_fft
  sp_sine,   \* history: None, or [len, cycles, phase] of the sinusoid sp_data holds
  sp_fft,    \* fft, what get_fft returned
  sp_file,   \* the lines write_fft wrote
  sp_pc      \* "data", "transformed", "written"

varsFft == <<sp_data, sp_sine, sp_fft, sp_file, sp_pc>>

VARIABLES
  an_sample_rate, \* sample_rate, parsed from the name of the input file
  an_period_size, \* period_size, parsed from the name of the input file
  an_contents,    \* the values of the lines of the input file
  an_skip,        \* skip
  an_fade,        \* fade
  an_data,        \* data
  an_handed,      \* history: the calls of get_fft and iir in order, [to, arg]
                  \* and, for arg = "data", the series handed over
  an_pc           \* "parsed", "skipped", "faded", "analysed", "panicked"

varsAnalysis == <<an_sample_rate, an_period_size, an_contents, an_skip, an_fade,
                  an_data, an_handed, an_pc>>

VARIABLES
  pt_mode,      \* args.arg_mode: "capture" or "playback"
  pt_hw,        \* [period_size, buffer_size, channels] read back from the device
  pt_sw,        \* start threshold of the session: None while the program has set none
  pt_buf,       \* buf, handed to card_vs_systime as rec_buf
  pt_pc,        \* "elevate", "transfer", "done", "exit_1", "panicked"
  pt_sched,     \* scheduling policy of the thread: "other", "fifo"
  pt_duration,  \* args.flag_duration, in seconds
  pt_start_ns,  \* start_ns
  pt_now,       \* time::precise_time_ns(), in clock ticks
  pt_xfers      \* history: [dir, len, period_size, channels, sw] of every transfer call

varsPeriod == <<pt_mode, pt_hw, pt_sw, pt_buf, pt_pc, pt_sched, pt_duration, pt_start_ns,
                pt_now, pt_xfers>>

VARIABLES
  ds_flag_capture,  \* args.flag_capture: handle_c is Some
  ds_flag_playback, \* args.flag_playback: handle_p is Some
  ds_pc,            \* "elevate", "c_start", "c_wait", "c_read", "p_write", "panicked"
  ds_sched,         \* scheduling policy of the main thread: "other", "fifo"
  ds_calls,         \* device calls made so far
  ds_events         \* history: [dir, kind, started] of the transfers and recoveries

varsDirect == <<ds_flag_capture, ds_flag_playback, ds_pc, ds_sched, ds_calls, ds_events>>

\* analysis: get_biquad and the filter's answer to a constant input
VARIABLES gb_omega, gb_q, gb_c, gb_bq, gb_output, gb_pc
varsBiquad == <<gb_omega, gb_q, gb_c, gb_bq, gb_output, gb_pc>>

vars == <<varsBridge, varsTime, varsSimple, varsDsp, varsFft, varsAnalysis,
         varsPeriod,
         varsDirect,
         varsBiquad>>

\* What each program leaves alone: the variables of the other programs
OtherThanBridge == <<varsTime, varsSimple, varsDsp, varsFft, varsAnalysis, varsPeriod,
                     varsDirect, varsBiquad>>
OtherThanTime == <<varsBridge, varsSimple, varsDsp, varsFft, varsAnalysis, varsPeriod,
                   varsDirect, varsBiquad>>
OtherThanSimple == <<varsBridge, varsTime, varsDsp, varsFft, varsAnalysis, varsPeriod,
                     varsDirect, varsBiquad>>
OtherThanDsp == <<varsBridge, varsTime, varsSimple, varsFft, varsAnalysis, varsPeriod,
                  varsDirect, varsBiquad>>
OtherThanFft == <<varsBridge, varsTime, varsSimple, varsDsp, varsAnalysis, varsPeriod,
                  varsDirect, varsBiquad>>
OtherThanAnalysis == <<varsBridge, varsTime, varsSimple, varsDsp, varsFft, varsPeriod,
                       varsDirect, varsBiquad>>
OtherThanPeriod == <<varsBridge, varsTime, varsSimple, varsDsp, varsFft, varsAnalysis,
                     varsDirect, varsBiquad>>
OtherThanDirect == <<varsBridge, varsTime, varsSimple, varsDsp, varsFft, varsAnalysis,
                     varsPeriod, varsBiquad>>
OtherThanBiquad == <<varsBridge, varsTime, varsSimple, varsDsp, varsFft, varsAnalysis,
                     varsPeriod, varsDirect>>

\* The variables of a program that is not the one running
IdleBridge ==
  /\ hw_c = [period_size |-> 1, channels |-> 1]
  /\ hw_p = [period_size |-> 1, channels |-> 1]
  /\ rb = <<>>
  /\ buf_c = <<>>
  /\ buf_p = <<>>
  /\ pc_c = "off"
  /\ pc_p = "off"
  /\ why_c = "none"
  /\ why_p = "none"
  /\ process = "off"
  /\ sched_c = "other"
  /\ sched_p = "other"
  /\ next_sample = 1
  /\ wr_res = "none"
  /\ wr_cnt = 0
  /\ size = 0
  /\ passed = <<>>
  /\ obtained = <<>>
  /\ played = <<>>

IdleSimple ==
  /\ sl_hw_c = [period_size |-> 1, channels |-> 1]
  /\ sl_hw_p = [period_size |-> 1, channels |-> 1]
  /\ sl_buf = <<>>
  /\ sl_pc = "off"
  /\ sl_sched = "other"
  /\ sl_state_c = "Prepared"
  /\ sl_state_p = "Prepared"
  /\ sl_reports_c = 0
  /\ sl_reports_p = 0
  /\ sl_prepares_c = 0
  /\ sl_prepares_p = 0
  /\ sl_next = 1
  /\ sl_read_ok = FALSE
  /\ sl_played = <<>>
  /\ sl_xfers = {}
  /\ sl_calls = 0

IdleDsp ==
  /\ bq = [b0 |-> Q(0), b1 |-> Q(0), b2 |-> Q(0), a1 |-> Q(0), a2 |-> Q(0),
           x1 |-> Q(0), x2 |-> Q(0), y1 |-> Q(0), y2 |-> Q(0)]
  /\ coefs = [b0 |-> Q(0), b1 |-> Q(0), b2 |-> Q(0), a1 |-> Q(0), a2 |-> Q(0)]
  /\ d_input = <<>>
  /\ d_prealloc = <<>>
  /\ d_output = <<>>
  /\ d_ret = "none"
  /\ d_phase = "off"
  /\ d_calls = 0
  /\ d_dirty = FALSE
  /\ d_chain = <<>>

IdleFft ==
  /\ sp_data = <<>>
  /\ sp_sine = None
  /\ sp_fft = <<>>
  /\ sp_file = <<>>
  /\ sp_pc = "off"

IdleAnalysis ==
  /\ an_sample_rate = 1
  /\ an_period_size = 1
  /\ an_contents = <<>>
  /\ an_skip = 0
  /\ an_fade = 0
  /\ an_data = <<>>
  /\ an_handed = <<>>
  /\ an_pc = "off"

IdlePeriod ==
  /\ pt_mode = "capture"
  /\ pt_hw = [period_size |-> 1, buffer_size |-> 2, channels |-> 1]
  /\ pt_sw = None
  /\ pt_buf = <<>>
  /\ pt_pc = "off"
  /\ pt_sched = "other"
  /\ pt_duration = 0
  /\ pt_start_ns = 0
  /\ pt_now = 0
  /\ pt_xfers = {}

IdleDirect ==
  /\ ds_flag_capture = FALSE
  /\ ds_flag_playback = FALSE
  /\ ds_pc = "off"
  /\ ds_sched = "other"
  /\ ds_calls = 0
  /\ ds_events = <<>>

IdleBiquad ==
  /\ gb_omega = None
  /\ gb_q = None
  /\ gb_c = None
  /\ gb_bq = None
  /\ gb_output = <<>>
  /\ gb_pc = "idle"

IdleTime ==
  /\ flag_capture = FALSE
  /\ flag_playback = FALSE
  /\ has_out = FALSE
  /\ period_size = 1
  /\ periods = 2
  /\ act_c = 1
  /\ act_p = 1
  /\ at_pc = "off"
  /\ at_sched = "other"
  /\ xruns_c = 0
  /\ xruns_p = 0
  /\ frames_count_c = 0
  /\ frames_count_p = 0
  /\ last_status_c = None
  /\ last_status_p = None
  /\ out_file = <<>>
  /\ now = 0
  /\ calls = 0
  /\ events = <<>>
  /\ xfers = {}

\* realtime_priority::get_realtime_priority, called by a thread whose
\* scheduling policy is sched: set_thread_schedule_policy(thread_native_id(),
\* Realtime(Fifo), ..) is granted or denied by the system, and unwrap()
\* panics the calling thread when it is denied.
get_realtime_priority_ignoring_denial(sched, granted) ==
  [sched |-> IF granted THEN "fifo" ELSE sched, panic |-> FALSE]

get_realtime_priority(sched, granted) ==
  IF granted THEN [sched |-> "fifo", panic |-> FALSE]
  ELSE [sched |-> sched, panic |-> TRUE]

\* get_period_buffer_size: actual period size times channel count
get_period_buffer_size(hw) == hw.period_size * hw.channels

\* rb::Producer::write, as called at alsa_asrc_loopback.rs:98: non-blocking;
\* Err(Full) when no slot is free, otherwise it stores as many elements as
\* fit and returns their count.
RbWrite(ring, data) ==
  IF Len(data) = 0 THEN [res |-> "Ok", cnt |-> 0, ring |-> ring]
  ELSE IF Len(ring) = RbCapacity THEN [res |-> "Full", cnt |-> 0, ring |-> ring]
  ELSE LET cnt == Min(Len(data), RbCapacity - Len(ring))
       IN [res |-> "Ok", cnt |-> cnt, ring |-> ring \o Take(data, cnt)]

\* rb::Consumer::read_blocking, as called at alsa_asrc_loopback.rs:119: waits
\* while the ring is empty (the caller's guard), then copies
\* min(len(data), count) elements to the front of data and returns the
\* count; the rest of data keeps its content.
RbReadBlocking(ring, data) ==
  LET cnt == Min(Len(data), Len(ring))
  IN [cnt |-> cnt,
      data |-> [i \in 1..Len(data) |-> IF i <= cnt THEN ring[i] ELSE data[i]],
      ring |-> Drop(ring, cnt)]

\* io.readi(&mut buf) returning Ok: the device fills buf with the next frames
Fresh(from, n) == [i \in 1..n |-> from + i - 1]

InitBridge ==
  /\ \E ch \in 1..MaxChannels, pc \in 1..MaxPeriod, pp \in 1..MaxPeriod :
       /\ hw_c = [period_size |-> pc, channels |-> ch]
       /\ hw_p = [period_size |-> pp, channels |-> ch]
       /\ buf_c = Zeros(pc * ch)
       /\ buf_p = Zeros(pp * ch)
  /\ rb = <<>>
  /\ pc_c = "elevate"
  /\ pc_p = "elevate"
  /\ why_c = "none"
  /\ why_p = "none"
  /\ process = "running"
  /\ sched_c = "other"
  /\ sched_p = "other"
  /\ next_sample = 1
  /\ wr_res = "none"
  /\ wr_cnt = 0
  /\ size = 0
  /\ passed = <<>>
  /\ obtained = <<>>
  /\ played = <<>>
  /\ IdleTime
  /\ IdleSimple
  /\ IdleDsp
  /\ IdleFft
  /\ IdleAnalysis
  /\ IdlePeriod
  /\ IdleDirect
  /\ IdleBiquad

\* realtime_priority::get_realtime_priority() in the capture thread: the
\* request is granted, or denied and unwrap() panics the thread.
CaptureElevate ==
  /\ UNCHANGED OtherThanBridge
  /\ process = "running"
  /\ pc_c = "elevate"
  /\ \E granted \in BOOLEAN :
       LET r == get_realtime_priority(sched_c, granted)
       IN /\ sched_c' = r.sched
          /\ IF r.panic
             THEN pc_c' = "panicked" /\ why_c' = "sched"
             ELSE pc_c' = "readi" /\ why_c' = why_c
  /\ UNCHANGED <<hw_c, hw_p, sched_p, rb, buf_c, buf_p, pc_p, why_p, process, next_sample,
                 wr_res, wr_cnt, size, passed, obtained, played>>

\* io.readi(&mut buf).unwrap() in the capture loop
CaptureReadi ==
  /\ UNCHANGED OtherThanBridge
  /\ process = "running"
  /\ pc_c = "readi"
  /\ \E ok \in BOOLEAN :
       IF ok
       THEN /\ next_sample + Len(buf_c) - 1 <= MaxSamples
            /\ buf_c' = Fresh(next_sample, Len(buf_c))
            /\ next_sample' = next_sample + Len(buf_c)
            /\ pc_c' = "write"
            /\ why_c' = why_c
       ELSE /\ pc_c' = "panicked"
            /\ why_c' = "transfer"
            /\ UNCHANGED <<buf_c, next_sample>>
  /\ UNCHANGED <<hw_c, hw_p, sched_c, sched_p, rb, buf_p, pc_p, why_p, process,
                 wr_res, wr_cnt, size, passed, obtained, played>>

\* prod.write(&mut buf).unwrap() in the capture loop
CaptureWrite ==
  /\ UNCHANGED OtherThanBridge
  /\ process = "running"
  /\ pc_c = "write"
  /\ LET r == RbWrite(rb, buf_c)
     IN /\ rb' = r.ring
        /\ wr_res' = r.res
        /\ wr_cnt' = r.cnt
        /\ IF r.res = "Ok"
           THEN /\ pc_c' = "readi"
                /\ why_c' = why_c
                /\ passed' = passed \o buf_c
           ELSE /\ pc_c' = "panicked"
                /\ why_c' = "bridge"
                /\ passed' = passed
  /\ UNCHANGED <<hw_c, hw_p, sched_c, sched_p, buf_c, buf_p, pc_p, why_p, process,
                 next_sample,
                 size, obtained, played>>

\* realtime_priority::get_realtime_priority() in the playback thread
PlaybackElevate ==
  /\ UNCHANGED OtherThanBridge
  /\ process = "running"
  /\ pc_p = "elevate"
  /\ \E granted \in BOOLEAN :
       LET r == get_realtime_priority(sched_p, granted)
       IN /\ sched_p' = r.sched
          /\ IF r.panic
             THEN pc_p' = "panicked" /\ why_p' = "sched"
             ELSE pc_p' = "read_blocking" /\ why_p' = why_p
  /\ UNCHANGED <<hw_c, hw_p, sched_c, rb, buf_c, buf_p, pc_c, why_c, process, next_sample,
                 wr_res, wr_cnt, size, passed, obtained, played>>

\* let size = cons.read_blocking(&mut buf).unwrap() in the playback loop
PlaybackReadBlocking ==
  /\ UNCHANGED OtherThanBridge
  /\ process = "running"
  /\ pc_p = "read_blocking"
  /\ Len(rb) > 0
  /\ LET r == RbReadBlocking(rb, buf_p)
     IN /\ rb' = r.ring
        /\ buf_p' = r.data
        /\ size' = r.cnt
        /\ obtained' = obtained \o Take(rb, r.cnt)
  /\ pc_p' = "writei"
  /\ UNCHANGED <<hw_c, hw_p, sched_c, sched_p, buf_c, pc_c, why_c, why_p, process,
                 next_sample,
                 wr_res, wr_cnt, passed, played>>

\* let written = io.writei(&buf).unwrap() in the playback loop
PlaybackWritei ==
  /\ UNCHANGED OtherThanBridge
  /\ process = "running"
  /\ pc_p = "writei"
  /\ \E ok \in BOOLEAN :
       IF ok
       THEN /\ played' = played \o buf_p
            /\ pc_p' = "read_blocking"
            /\ why_p' = why_p
       ELSE /\ played' = played
            /\ pc_p' = "panicked"
            /\ why_p' = "transfer"
  /\ UNCHANGED <<hw_c, hw_p, sched_c, sched_p, rb, buf_c, buf_p, pc_c, why_c, process,
                 next_sample,
                 wr_res, wr_cnt, size, passed, obtained>>

\* main joining the playback thread in place of the capture thread
MainJoinsPlayback ==
  /\ UNCHANGED OtherThanBridge
  /\ process = "running"
  /\ pc_p = "panicked"
  /\ process' = "exited"
  /\ UNCHANGED <<hw_c, hw_p, sched_c, sched_p, rb, buf_c, buf_p, pc_c, pc_p, why_c, why_p,
                 next_sample, wr_res, wr_cnt, size, passed, obtained, played>>

\* capture_handle.join().unwrap() in main: the capture thread only ends by a
\* panic, join() then returns Err and unwrap() ends main and the process.
MainJoin ==
  /\ UNCHANGED OtherThanBridge
  /\ process = "running"
  /\ pc_c = "panicked"
  /\ process' = "exited"
  /\ UNCHANGED <<hw_c, hw_p, sched_c, sched_p, rb, buf_c, buf_p, pc_c, pc_p, why_c, why_p,
                 next_sample,
                 wr_res, wr_cnt, size, passed, obtained, played>>

(***************************************************************************)
(* alsa_audio_time: one thread, capture transfer then playback transfer,   *)
(* with timestamp output                                                   *)
(***************************************************************************)
\* Number of device calls (wait, readi, writei) a single-threaded loop makes.
MaxCalls == 6
\* Requested period sizes and period counts (args.flag_period_size,
\* args.flag_periods) and the period sizes a device negotiates.
PeriodSizes == {1, 2}
PeriodCounts == {2}
\* Delays (frames) a status snapshot reports: get_delay() is a signed frame
\* count (snd_pcm_sframes_t).
Delays == {-1, 0, 2}
\* Advances of the system clock between two status snapshots, in clock
\* ticks.
ClockSteps == {1, 2}
\* Clock ticks in a second: the resolution of a timespec (tv_nsec counts
\* 1e9 to the second, scaled down here).
NsPerSec == 10
\* f64 values in a second: the timestamps of a run lie in one binade of
\* f64, where the f64 values are the multiples of one quantum, finer than
\* a clock tick and not a divisor of it (2^-29 s against 1e-9 s up to 97
\* days, scaled down here).  A time in f64 is a count of quanta.
FloatGrid == 16

\* const CHANNELS: u32 = 2
CHANNELS == 2

\* vec![0i16; (period_size * periods * CHANNELS) as usize]
TimeBufferLen == period_size * periods * CHANNELS

\* frames a transfer call moves at most: buffer length / channels
TimeBufferFrames == TimeBufferLen \div CHANNELS

\* Frame counts a successful transfer call returns: the whole buffer, or a
\* short transfer
TransferLens == {1, TimeBufferFrames}

\* The timespec of the clock at tick t
Timespec(t) == [tv_sec |-> t \div NsPerSec, tv_nsec |-> t % NsPerSec]

\* a / b rounded to the nearest integer
RoundDiv(a, b) == ((2 * a) + b) \div (2 * b)

\* timespec_f64: ts.tv_sec as f64 + (ts.tv_nsec as f64) / 1e9, rounded to
\* the nearest f64
timespec_f64(ts) == (ts.tv_sec * FloatGrid) + RoundDiv(ts.tv_nsec * FloatGrid, NsPerSec)

\* The status snapshots the device can report at system time t.
Statuses(t) ==
  [delay : Delays, htstamp : {Timespec(t)}, audio_htstamp : {Timespec(t)},
   trigger_htstamp : {Timespec(0)}]

\* u64 arithmetic.  A u64 value is written as an integer v: v >= 0 is the
\* value v, v < 0 is the value 2^64 + v, so that the wrapping sum and
\* difference of two values are the integer sum and difference.
\* `x as u64` of a signed x
as_u64(x) == x

\* a + b exceeds 2^64 - 1
u64_add_overflows(a, b) ==
  IF a >= 0 /\ b >= 0 THEN FALSE
  ELSE IF a < 0 /\ b < 0 THEN TRUE
  ELSE a + b >= 0

\* a - b is below 0
u64_sub_underflows(a, b) ==
  IF (a >= 0) = (b >= 0) THEN a < b
  ELSE a >= 0

\* write_timestamp_capture with a retained previous status kept in place of
\* the snapshot
write_timestamp_capture_keeps_sample(file, status, last_status, frames_count) ==
  LET system_tstamp == timespec_f64(status.htstamp)
      captured_frames == frames_count + as_u64(status.delay)
      saved_status == [audio_htstamp |-> status.audio_htstamp,
                       htstamp |-> status.htstamp,
                       captured_frames |-> captured_frames]
      line == [dir |-> "c",
               captured_frames_from_last |-> captured_frames - last_status.captured_frames,
               system_elapsed_from_last |->
                 system_tstamp - timespec_f64(last_status.htstamp)]
  IN [file |-> IF last_status # None THEN Append(file, line) ELSE file,
      last_status |-> IF last_status # None THEN last_status ELSE saved_status,
      overflow |->
        \/ u64_add_overflows(frames_count, as_u64(status.delay))
        \/ /\ last_status # None
           /\ u64_sub_underflows(captured_frames, last_status.captured_frames)]

\* write_timestamp_capture: a line is written only against a retained
\* previous status; the snapshot then replaces the previous status.
\* overflow: the u64 sum frames_count + delay or the u64 difference of the
\* captured frames leaves the range of u64.
write_timestamp_capture(file, status, last_status, frames_count) ==
  LET system_tstamp == timespec_f64(status.htstamp)
      captured_frames == frames_count + as_u64(status.delay)
      saved_status == [audio_htstamp |-> status.audio_htstamp,
                       htstamp |-> status.htstamp,
                       captured_frames |-> captured_frames]
      line == [dir |-> "c",
               captured_frames_from_last |-> captured_frames - last_status.captured_frames,
               system_elapsed_from_last |->
                 system_tstamp - timespec_f64(last_status.htstamp)]
  IN [file |-> IF last_status # None THEN Append(file, line) ELSE file,
      last_status |-> saved_status,
      overflow |->
        \/ u64_add_overflows(frames_count, as_u64(status.delay))
        \/ /\ last_status # None
           /\ u64_sub_underflows(captured_frames, last_status.captured_frames)]

\* write_timestamp_playback: a line is written on every call.
write_timestamp_playback(file, status, frames_count) ==
  LET audio_elapsed == timespec_f64(status.audio_htstamp)
      trigger_tstamp == timespec_f64(status.trigger_htstamp)
      system_tstamp == timespec_f64(status.htstamp)
      system_elapsed == system_tstamp - trigger_tstamp
      line == [dir |-> "p",
               system_elapsed |-> system_elapsed,
               audio_elapsed |-> audio_elapsed,
               drift |-> system_tstamp - trigger_tstamp - audio_elapsed]
  IN Append(file, line)

\* The capture part followed by the next iteration, the playback part left out
AfterCaptureSkipsPlayback == "c_wait"

\* The loop's next step after the capture part / after the playback part
AfterCapture == IF flag_playback THEN "p_write" ELSE "c_wait"
AfterPlayback == IF flag_capture THEN "c_wait" ELSE "p_write"

InitTime ==
  /\ flag_capture \in BOOLEAN
  /\ flag_playback \in BOOLEAN
  /\ flag_capture \/ flag_playback
  /\ has_out \in BOOLEAN
  /\ period_size \in PeriodSizes
  /\ periods \in PeriodCounts
  /\ act_c \in PeriodSizes
  /\ act_p \in PeriodSizes
  /\ at_pc = "elevate"
  /\ at_sched = "other"
  /\ xruns_c = 0
  /\ xruns_p = 0
  /\ frames_count_c = 0
  /\ frames_count_p = 0
  /\ last_status_c = None
  /\ last_status_p = None
  /\ out_file = <<>>
  /\ now = 0
  /\ calls = 0
  /\ events = <<>>
  /\ xfers = {}
  /\ IdleBridge
  /\ IdleSimple
  /\ IdleDsp
  /\ IdleFft
  /\ IdleAnalysis
  /\ IdlePeriod
  /\ IdleDirect
  /\ IdleBiquad

\* realtime_priority::get_realtime_priority() before the loop
TimeElevate ==
  /\ UNCHANGED OtherThanTime
  /\ at_pc = "elevate"
  /\ \E granted \in BOOLEAN :
       LET r == get_realtime_priority(at_sched, granted)
       IN /\ at_sched' = r.sched
          /\ at_pc' = IF r.panic THEN "panicked"
                      ELSE IF flag_capture THEN "c_wait" ELSE "p_write"
  /\ UNCHANGED <<flag_capture, flag_playback, has_out, period_size, periods, act_c, act_p,
                 xruns_c, xruns_p, frames_count_c, frames_count_p,
                 last_status_c, last_status_p, out_file, now, calls, events, xfers>>

\* The recovery of the capture direction with frames_count_c = 0 left out
RecoverCaptureKeepsCount(next_pc) ==
  \E recovered \in BOOLEAN :
    IF recovered
    THEN /\ xruns_c' = xruns_c + 1
         /\ frames_count_c' = frames_count_c
         /\ last_status_c' = None
         /\ events' = Append(events, [dir |-> "c", kind |-> "recover", len |-> 0,
                                 wrote |-> FALSE, snap |-> None,
                                 started |-> TRUE])
         /\ at_pc' = next_pc
    ELSE /\ at_pc' = "panicked"
         /\ UNCHANGED <<xruns_c, frames_count_c, last_status_c, events>>

\* The recovery of the capture direction (after a wait or a read error):
\* try_recover(e, false).unwrap(); start().unwrap(); xruns_c += 1;
\* frames_count_c = 0; last_status_c = None.  The event records that
\* start() was issued.
RecoverCapture(next_pc) ==
  \E recovered \in BOOLEAN :
    IF recovered
    THEN /\ xruns_c' = xruns_c + 1
         /\ frames_count_c' = 0
         /\ last_status_c' = None
         /\ events' = Append(events, [dir |-> "c", kind |-> "recover", len |-> 0,
                                 wrote |-> FALSE, snap |-> None,
                                 started |-> TRUE])
         /\ at_pc' = next_pc
    ELSE /\ at_pc' = "panicked"
         /\ UNCHANGED <<xruns_c, frames_count_c, last_status_c, events>>

\* The recovery of the playback direction: try_recover(e, false).unwrap();
\* xruns_p += 1; frames_count_p = 0; last_status_p = None
RecoverPlayback(next_pc) ==
  \E recovered \in BOOLEAN :
    IF recovered
    THEN /\ xruns_p' = xruns_p + 1
         /\ frames_count_p' = 0
         /\ last_status_p' = None
         /\ events' = Append(events, [dir |-> "p", kind |-> "recover", len |-> 0,
                                 wrote |-> FALSE, snap |-> None,
                                 started |-> FALSE])
         /\ at_pc' = next_pc
    ELSE /\ at_pc' = "panicked"
         /\ UNCHANGED <<xruns_p, frames_count_p, last_status_p, events>>

\* if let Err(e) = pcm_c.wait(None) { recover }
TimeCaptureWait ==
  /\ UNCHANGED OtherThanTime
  /\ at_pc = "c_wait"
  /\ calls < MaxCalls
  /\ calls' = calls + 1
  /\ \E ok \in BOOLEAN :
       IF ok
       THEN /\ at_pc' = "c_read"
            /\ UNCHANGED <<xruns_c, frames_count_c, last_status_c, events>>
       ELSE RecoverCapture("c_read")
  /\ UNCHANGED <<flag_capture, flag_playback, at_sched, has_out, period_size, periods,
                 act_c, act_p,
                 xruns_p, frames_count_p, last_status_p, out_file, now, xfers>>

\* match io.readi(&mut buffer_c) { Ok(len) => ..., Err(e) => recover }
TimeCaptureRead ==
  /\ UNCHANGED OtherThanTime
  /\ at_pc = "c_read"
  /\ calls < MaxCalls
  /\ calls' = calls + 1
  /\ xfers' = xfers \cup {[dir |-> "c", len |-> TimeBufferLen,
                           period_size |-> act_c, channels |-> CHANNELS]}
  /\ \E ok \in BOOLEAN :
       IF ok
       THEN \E len \in TransferLens, dt \in ClockSteps :
              \E status \in Statuses(now + dt) :
                LET r == write_timestamp_capture(out_file, status, last_status_c,
                                                 frames_count_c + len)
                    \* an overflow panics in a build with overflow checks and
                    \* wraps in a build without
                    panics == IF has_out /\ r.overflow THEN BOOLEAN ELSE {FALSE}
                IN \E panic \in panics :
                   /\ frames_count_c' = frames_count_c + len
                   /\ now' = now + dt
                   /\ out_file' = IF has_out /\ ~panic THEN r.file ELSE out_file
                   /\ last_status_c' = IF has_out /\ ~panic THEN r.last_status
                                       ELSE last_status_c
                   /\ events' = Append(events, [dir |-> "c", kind |-> "ok", len |-> len,
                                                wrote |-> out_file' # out_file,
                                                snap |-> IF has_out
                                                         THEN [t |-> now + dt,
                                                               delay |-> status.delay]
                                                         ELSE None,
                                                started |-> FALSE])
                   /\ at_pc' = IF panic THEN "panicked" ELSE AfterCapture
                   /\ UNCHANGED xruns_c
       ELSE /\ RecoverCapture(AfterCapture)
            /\ UNCHANGED <<out_file, now>>
  /\ UNCHANGED <<flag_capture, flag_playback, at_sched, has_out, period_size, periods,
                 act_c, act_p,
                 xruns_p, frames_count_p, last_status_p>>

\* match io.writei(&buffer_p) { Ok(len) => ..., Err(e) => recover }
TimePlaybackWrite ==
  /\ UNCHANGED OtherThanTime
  /\ at_pc = "p_write"
  /\ calls < MaxCalls
  /\ calls' = calls + 1
  /\ xfers' = xfers \cup {[dir |-> "p", len |-> TimeBufferLen,
                           period_size |-> act_p, channels |-> CHANNELS]}
  /\ \E ok \in BOOLEAN :
       IF ok
       THEN \E len \in TransferLens, dt \in ClockSteps :
              \E status \in Statuses(now + dt) :
                /\ frames_count_p' = frames_count_p + len
                /\ now' = now + dt
                /\ out_file' = IF has_out
                               THEN write_timestamp_playback(out_file, status,
                                                             frames_count_p + len)
                               ELSE out_file
                /\ events' = Append(events, [dir |-> "p", kind |-> "ok", len |-> len,
                                             wrote |-> out_file' # out_file,
                                             snap |-> None, started |-> FALSE])
                /\ at_pc' = AfterPlayback
                /\ UNCHANGED <<xruns_p, last_status_p>>
       ELSE /\ RecoverPlayback(AfterPlayback)
            /\ UNCHANGED <<out_file, now>>
  /\ UNCHANGED <<flag_capture, flag_playback, at_sched, has_out, period_size, periods,
                 act_c, act_p,
                 xruns_c, frames_count_c, last_status_c>>

(***************************************************************************)
(* alsa_simple_loopback: one thread, one buffer, capture read then         *)
(* playback write                                                          *)
(***************************************************************************)
\* pcm.state() of a device last seen in state st: a running stream may have
\* run over or under since.
States(st) == IF st = "Running" THEN {"Running", "XRun"} ELSE {st}

InitSimple ==
  /\ \E ch \in 1..MaxChannels, pc \in 1..MaxPeriod, pp \in 1..MaxPeriod :
       /\ sl_hw_c = [period_size |-> pc, channels |-> ch]
       /\ sl_hw_p = [period_size |-> pp, channels |-> ch]
       \* let period_buffer_size = get_period_buffer_size(&pcm_playback);
       \* let mut buf = vec![0; period_buffer_size];
       /\ sl_buf = Zeros(get_period_buffer_size([period_size |-> pp, channels |-> ch]))
  /\ sl_pc = "elevate"
  /\ sl_sched = "other"
  /\ sl_state_c = "Prepared"
  /\ sl_state_p = "Prepared"
  /\ sl_reports_c = 0
  /\ sl_reports_p = 0
  /\ sl_prepares_c = 0
  /\ sl_prepares_p = 0
  /\ sl_next = 1
  /\ sl_read_ok = FALSE
  /\ sl_played = <<>>
  /\ sl_xfers = {}
  /\ sl_calls = 0
  /\ IdleBridge
  /\ IdleTime
  /\ IdleDsp
  /\ IdleFft
  /\ IdleAnalysis
  /\ IdlePeriod
  /\ IdleDirect
  /\ IdleBiquad

\* realtime_priority::get_realtime_priority() before the loop
SimpleElevate ==
  /\ UNCHANGED OtherThanSimple
  /\ sl_pc = "elevate"
  /\ \E granted \in BOOLEAN :
       LET r == get_realtime_priority(sl_sched, granted)
       IN /\ sl_sched' = r.sched
          /\ sl_pc' = IF r.panic THEN "panicked" ELSE "c_state"
  /\ UNCHANGED <<sl_hw_c, sl_hw_p, sl_buf, sl_state_c, sl_state_p, sl_reports_c,
                 sl_reports_p, sl_prepares_c, sl_prepares_p, sl_next, sl_read_ok,
                 sl_played, sl_xfers, sl_calls>>

\* let capture_state = pcm_capture.state();
\* if capture_state == State::XRun { eprintln!("Prepare capture"); prepare().unwrap() }
SimpleCaptureState ==
  /\ UNCHANGED OtherThanSimple
  /\ sl_pc = "c_state"
  /\ sl_calls < MaxCalls
  /\ \E capture_state \in States(sl_state_c) :
       IF capture_state = "XRun"
       THEN /\ sl_reports_c' = sl_reports_c + 1
            /\ \E prepared \in BOOLEAN :
                 IF prepared
                 THEN /\ sl_state_c' = "Prepared"
                      /\ sl_prepares_c' = sl_prepares_c + 1
                      /\ sl_pc' = "c_read"
                 ELSE /\ sl_state_c' = "XRun"
                      /\ sl_prepares_c' = sl_prepares_c
                      /\ sl_pc' = "panicked"
       ELSE /\ sl_state_c' = capture_state
            /\ sl_pc' = "c_read"
            /\ UNCHANGED <<sl_reports_c, sl_prepares_c>>
  /\ UNCHANGED <<sl_hw_c, sl_hw_p, sl_sched, sl_buf, sl_state_p, sl_reports_p,
                 sl_prepares_p,
                 sl_next, sl_read_ok, sl_played, sl_xfers, sl_calls>>

\* if let Err(_) = io_capture.readi(&mut buf) { pcm_capture.prepare().unwrap(); }
SimpleCaptureRead ==
  /\ UNCHANGED OtherThanSimple
  /\ sl_pc = "c_read"
  /\ sl_calls < MaxCalls
  /\ sl_calls' = sl_calls + 1
  /\ sl_xfers' = sl_xfers \cup {[dir |-> "c", len |-> Len(sl_buf),
                                 period_size |-> sl_hw_c.period_size,
                                 channels |-> sl_hw_c.channels]}
  /\ \E ok \in BOOLEAN :
       IF ok
       THEN /\ sl_buf' = Fresh(sl_next, Len(sl_buf))
            /\ sl_next' = sl_next + Len(sl_buf)
            /\ sl_state_c' = "Running"
            /\ sl_read_ok' = TRUE
            /\ sl_pc' = "p_state"
            /\ UNCHANGED sl_prepares_c
       ELSE /\ sl_read_ok' = FALSE
            /\ UNCHANGED <<sl_buf, sl_next>>
            /\ \E prepared \in BOOLEAN :
                 IF prepared
                 THEN /\ sl_state_c' = "Prepared"
                      /\ sl_prepares_c' = sl_prepares_c + 1
                      /\ sl_pc' = "p_state"
                 ELSE /\ sl_state_c' = "XRun"
                      /\ sl_prepares_c' = sl_prepares_c
                      /\ sl_pc' = "panicked"
  /\ UNCHANGED <<sl_hw_c, sl_hw_p, sl_sched, sl_state_p, sl_reports_c, sl_reports_p,
                 sl_prepares_p, sl_played>>

\* let playback_state = pcm_playback.state();
\* if playback_state == State::XRun { eprintln!("Prepare playback"); prepare().unwrap() }
SimplePlaybackState ==
  /\ UNCHANGED OtherThanSimple
  /\ sl_pc = "p_state"
  /\ sl_calls < MaxCalls
  /\ \E playback_state \in States(sl_state_p) :
       IF playback_state = "XRun"
       THEN /\ sl_reports_p' = sl_reports_p + 1
            /\ \E prepared \in BOOLEAN :
                 IF prepared
                 THEN /\ sl_state_p' = "Prepared"
                      /\ sl_prepares_p' = sl_prepares_p + 1
                      /\ sl_pc' = "p_write"
                 ELSE /\ sl_state_p' = "XRun"
                      /\ sl_prepares_p' = sl_prepares_p
                      /\ sl_pc' = "panicked"
       ELSE /\ sl_state_p' = playback_state
            /\ sl_pc' = "p_write"
            /\ UNCHANGED <<sl_reports_p, sl_prepares_p>>
  /\ UNCHANGED <<sl_hw_c, sl_hw_p, sl_sched, sl_buf, sl_state_c, sl_reports_c,
                 sl_prepares_c,
                 sl_next, sl_read_ok, sl_played, sl_xfers, sl_calls>>

\* if let Err(_) = io_playback.writei(&buf) { pcm_playback.prepare().unwrap(); }
SimplePlaybackWrite ==
  /\ UNCHANGED OtherThanSimple
  /\ sl_pc = "p_write"
  /\ sl_calls < MaxCalls
  /\ sl_calls' = sl_calls + 1
  /\ sl_xfers' = sl_xfers \cup {[dir |-> "p", len |-> Len(sl_buf),
                                 period_size |-> sl_hw_p.period_size,
                                 channels |-> sl_hw_p.channels]}
  /\ sl_played' = Append(sl_played, [buf |-> sl_buf, read_ok |-> sl_read_ok])
  /\ \E ok \in BOOLEAN :
       IF ok
       THEN /\ sl_state_p' = "Running"
            /\ sl_pc' = "c_state"
            /\ UNCHANGED sl_prepares_p
       ELSE \E prepared \in BOOLEAN :
              IF prepared
              THEN /\ sl_state_p' = "Prepared"
                   /\ sl_prepares_p' = sl_prepares_p + 1
                   /\ sl_pc' = "c_state"
              ELSE /\ sl_state_p' = "XRun"
                   /\ sl_prepares_p' = sl_prepares_p
                   /\ sl_pc' = "panicked"
  /\ UNCHANGED <<sl_hw_c, sl_hw_p, sl_sched, sl_buf, sl_state_c, sl_reports_c, sl_reports_p,
                 sl_prepares_c, sl_next, sl_read_ok>>

(***************************************************************************)
(* dsp: Biquad and iir.  The f64 samples and coefficients are exact         *)
(* fractions.                                                              *)
(***************************************************************************)
\* Longest series handed to iir.
MaxLen == 3
\* Number of iir calls on one Biquad.
MaxFilterCalls == 2
\* Sample values of a series.
Samples == {Q(1), Q(2)}
\* Coefficient sets a Biquad is built with.
Coefficients ==
  [b0 : {Q(1)}, b1 : {Q(2)}, b2 : {Q(3)}, a1 : {Q(-1), Q(1)}, a2 : {Q(0), Q(1)}]

\* All series of length 0..n over S
SeqsUpTo(S, n) == UNION {[1..k -> S] : k \in 0..n}

\* Biquad::default() with the coefficients set, as get_biquad builds it
NewBiquad(c) ==
  [b0 |-> c.b0, b1 |-> c.b1, b2 |-> c.b2, a1 |-> c.a1, a2 |-> c.a2,
   x1 |-> Q(0), x2 |-> Q(0), y1 |-> Q(0), y2 |-> Q(0)]

\* Biquad::reset with y2 forgotten
reset_keeps_y2(b) == [b EXCEPT !.x1 = Q(0), !.x2 = Q(0), !.y1 = Q(0)]

\* Biquad::reset
reset(b) == [b EXCEPT !.x1 = Q(0), !.x2 = Q(0), !.y1 = Q(0), !.y2 = Q(0)]

\* The body of the loop of iir for index i, and the iterations after it
RECURSIVE IirLoop(_, _, _, _)
IirLoop(input, output, b, i) ==
  IF i > Len(input) THEN [output |-> output, bq |-> b]
  ELSE LET x == input[i]
           y == QAdd(QAdd(QAdd(QAdd(QMul(b.b0, x), QMul(b.b1, b.x1)), QMul(b.b2, b.x2)),
                          QMul(b.a1, b.y1)),
                     QMul(b.a2, b.y2))
       IN IirLoop(input, [output EXCEPT ![i] = y],
                  [b EXCEPT !.x2 = b.x1, !.x1 = x, !.y2 = b.y1, !.y1 = y], i + 1)

\* iir computing from a zero delay line whatever the filter holds
iir_from_zero_delay_line(input, output, b) ==
  IF Len(input) # Len(output)
  THEN [output |-> output, bq |-> b, ret |-> "unit"]
  ELSE LET r == IirLoop(input, output, reset(b), 1)
       IN [output |-> r.output, bq |-> r.bq, ret |-> "unit"]

\* iir(input, output, bq): returns at once when the lengths differ
iir(input, output, b) ==
  IF Len(input) # Len(output)
  THEN [output |-> output, bq |-> b, ret |-> "unit"]
  ELSE LET r == IirLoop(input, output, b, 1)
       IN [output |-> r.output, bq |-> r.bq, ret |-> "unit"]

\* The last two entries of a history
LastTwo(h) == IF Len(h) <= 2 THEN h ELSE SubSeq(h, Len(h) - 1, Len(h))

InitDsp ==
  /\ coefs \in Coefficients
  /\ bq = NewBiquad(coefs)
  /\ d_input = <<>>
  /\ d_prealloc = <<>>
  /\ d_output = <<>>
  /\ d_ret = "none"
  /\ d_phase = "new"
  /\ d_calls = 0
  /\ d_dirty = FALSE
  /\ d_chain = <<>>
  /\ IdleBridge
  /\ IdleTime
  /\ IdleSimple
  /\ IdleFft
  /\ IdleAnalysis
  /\ IdlePeriod
  /\ IdleDirect
  /\ IdleBiquad

\* A caller allocates vec![0.0; n] and calls iir(&input, &mut output, &mut bq):
\* the output is empty, of the input's length, or of the greatest length
DspIir ==
  /\ UNCHANGED OtherThanDsp
  /\ d_calls < MaxFilterCalls
  /\ d_calls' = d_calls + 1
  /\ \E input \in SeqsUpTo(Samples, MaxLen) :
     \E n \in {0, Len(input), MaxLen} :
       LET r == iir(input, ZerosF64(n), bq)
       IN /\ d_input' = input
          /\ d_prealloc' = ZerosF64(n)
          /\ d_output' = r.output
          /\ d_ret' = r.ret
          /\ bq' = r.bq
          /\ d_chain' = IF Len(input) = n
                        THEN LastTwo(Append(d_chain, [before |-> bq, input |-> input,
                                                      output |-> r.output, after |-> r.bq]))
                        ELSE d_chain
  /\ d_phase' = IF d_phase = "reset" THEN "filtered_after_reset" ELSE "filtered"
  /\ UNCHANGED <<coefs, d_dirty>>

\* bq.reset()
DspReset ==
  /\ UNCHANGED OtherThanDsp
  /\ d_phase \in {"new", "filtered", "filtered_after_reset"}
  /\ bq' = reset(bq)
  /\ d_phase' = "reset"
  /\ d_dirty' = (<<bq.x1, bq.x2, bq.y1, bq.y2>> # <<Q(0), Q(0), Q(0), Q(0)>>)
  /\ d_chain' = <<>>
  /\ UNCHANGED <<coefs, d_input, d_prealloc, d_output, d_ret, d_calls>>

(***************************************************************************)
(* analysis: get_fft and write_fft.  The transform is computed exactly, on *)
(* the lengths 1, 2, 4 and 8, whose twiddle factors have real and          *)
(* imaginary parts in {0, 1, -1, sqrt(2)/2, -sqrt(2)/2}.  An f64 value is  *)
(* modelled as a number a + b*sqrt(2) with a an even integer and b an      *)
(* integer, written [a |-> a, b |-> b]: these numbers are closed under     *)
(* the sums and the twiddle products of the transform.  Floating-point     *)
(* rounding is left out.                                                   *)
(***************************************************************************)
\* Lengths of the series handed to get_fft
FftLens == {1, 2, 4, 8}
\* Sample values of the arbitrary series
FftSamples == {[a |-> 0, b |-> 0], [a |-> 2, b |-> 0], [a |-> -2, b |-> 0]}
\* Longest arbitrary series; the sinusoids have length 8
FftArbitraryLens == {1, 2, 4}
\* Whole cycles a sinusoid makes over its 8 points
FftCycles == {1, 2, 3}
\* Phases of a sinusoid, in eighths of a turn: 0 is the cosine, 6 the sine
FftPhases == 0..7

R2Zero == [a |-> 0, b |-> 0]
R2Add(x, y) == [a |-> x.a + y.a, b |-> x.b + y.b]
R2Neg(x) == [a |-> 0 - x.a, b |-> 0 - x.b]
R2Sub(x, y) == R2Add(x, R2Neg(y))
R2Mul(x, y) == [a |-> (x.a * y.a) + (2 * x.b * y.b), b |-> (x.a * y.b) + (x.b * y.a)]
\* x * sqrt(2)/2
R2HalfSqrt2(x) == [a |-> x.b, b |-> x.a \div 2]
\* x > 0
R2Pos(x) ==
  IF x.a >= 0 /\ x.b >= 0 THEN x.a + x.b > 0
  ELSE IF x.a <= 0 /\ x.b <= 0 THEN FALSE
  ELSE IF x.a > 0 THEN x.a * x.a > 2 * x.b * x.b
  ELSE 2 * x.b * x.b > x.a * x.a
\* f64::abs
R2Abs(x) == IF R2Pos(x) THEN x ELSE R2Neg(x)
R2Less(x, y) == R2Pos(R2Sub(y, x))

\* x * cos(2*pi*m/8)
CosTimes(x, m) ==
  CASE m % 8 = 0 -> x
    [] m % 8 \in {1, 7} -> R2HalfSqrt2(x)
    [] m % 8 \in {2, 6} -> R2Zero
    [] m % 8 \in {3, 5} -> R2Neg(R2HalfSqrt2(x))
    [] m % 8 = 4 -> R2Neg(x)

\* x * sin(2*pi*m/8)
SinTimes(x, m) == CosTimes(x, m + 6)

\* The sum of f(1) .. f(n)
RECURSIVE R2Sum(_, _)
R2Sum(f, n) == IF n = 0 THEN R2Zero ELSE R2Add(R2Sum(f, n - 1), f[n])

\* FFT::process with a forward plan (FFTplanner::new(false)): bin k of the
\* unnormalised forward transform, sum of data[n] * exp(-2*pi*i*n*k/N)
ForwardBin(data, k) ==
  LET N == Len(data)
      turn(n) == (n * k * (8 \div N)) % 8
  IN [re |-> R2Sum([n \in 1..N |-> CosTimes(data[n], turn(n - 1))], N),
      im |-> R2Neg(R2Sum([n \in 1..N |-> SinTimes(data[n], turn(n - 1))], N))]

\* fft.process(&mut fft_in, &mut fft_out): fft_out, bin k at index k + 1
FftProcess(data) == [i \in 1..Len(data) |-> ForwardBin(data, i - 1)]

\* get_fft: the absolute value of the real part of every bin, truncated to
\* the first len/2 bins
get_fft(data) ==
  LET fft_out == FftProcess(data)
      all_vals == [i \in 1..Len(data) |-> R2Abs(fft_out[i].re)]
  IN Take(all_vals, Len(data) \div 2)

\* write_fft: one line per value, "i / (len - 1)" and the value.  The
\* quotient of the two f64 is kept as the pair it is computed from
\* (0 / 0 is NaN).
write_fft(fft_data) ==
  [i \in 1..Len(fft_data) |->
     [num |-> i - 1, den |-> Len(fft_data) - 1, value |-> fft_data[i]]]

\* A sinusoid of amplitude 2 over 8 points
Sinusoid(cycles, phase) ==
  [n \in 1..8 |-> CosTimes([a |-> 2, b |-> 0], (cycles * (n - 1)) + phase)]

InitFft ==
  /\ \/ \E c \in FftCycles, p \in FftPhases :
          /\ sp_data = Sinusoid(c, p)
          /\ sp_sine = [len |-> 8, cycles |-> c, phase |-> p]
     \/ /\ sp_data \in UNION {[1..n -> FftSamples] : n \in FftArbitraryLens}
        /\ sp_sine = None
  /\ sp_fft = <<>>
  /\ sp_file = <<>>
  /\ sp_pc = "data"
  /\ IdleBridge
  /\ IdleTime
  /\ IdleSimple
  /\ IdleDsp
  /\ IdleAnalysis
  /\ IdlePeriod
  /\ IdleDirect
  /\ IdleBiquad

\* let fft = get_fft(&data)
FftGet ==
  /\ UNCHANGED OtherThanFft
  /\ sp_pc = "data"
  /\ sp_fft' = get_fft(sp_data)
  /\ sp_pc' = "transformed"
  /\ UNCHANGED <<sp_data, sp_sine, sp_file>>

\* write_fft(&args.arg_fft, &fft)
FftWrite ==
  /\ UNCHANGED OtherThanFft
  /\ sp_pc = "transformed"
  /\ sp_file' = write_fft(sp_fft)
  /\ sp_pc' = "written"
  /\ UNCHANGED <<sp_data, sp_sine, sp_fft>>

(***************************************************************************)
(* analysis: main, from the parsed input to the faded series.  The f64     *)
(* values are exact fractions [num, den]; 0/0 is the NaN the division      *)
(* i / (fade - 1) gives for fade = 1.                                      *)
(***************************************************************************)
\* Sample rates and period sizes parsed from the file name
AnalysisConfigs ==
  {[sample_rate |-> 48000, period_size |-> 256]}
    \cup [sample_rate : {4, 6, 8, 10}, period_size : {1, 2, 3}]
\* Longest input series shorter than its skip + fade values
MaxShort == 3
\* The other input series hold skip + fade + 0..MaxExtra values
MaxExtra == 2

skip_seconds == [num |-> 1, den |-> 2]
fade_seconds == [num |-> 1, den |-> 1]

\* (sample_rate as f64 * seconds / period_size as f64) as usize: the
\* quotient is positive and the cast truncates it toward zero
PeriodsIn(seconds, rate, psize) == (rate * seconds.num) \div (seconds.den * psize)

\* skip with the quotient rounded to the nearest integer
skip_rounded(rate, psize) ==
  ((2 * rate * skip_seconds.num) + (skip_seconds.den * psize))
    \div (2 * skip_seconds.den * psize)

skip(rate, psize) == PeriodsIn(skip_seconds, rate, psize)
fade(rate, psize) == PeriodsIn(fade_seconds, rate, psize)

\* The last n values dropped in place of the first n
SkipAtEnd(values, n) == Take(values, Len(values) - Min(n, Len(values)))

\* contents.lines().map(parse).skip(n).collect()
SkipCollect(values, n) == Drop(values, Min(n, Len(values)))

\* The fade-in loop on a series of at least n values:
\* data[i] = data[i] * (i as f64 / (n - 1) as f64) for i in 0..n
FadeIn(data, n) ==
  [i \in 1..Len(data) |->
     IF i <= n
     THEN [num |-> data[i].num * (i - 1), den |-> data[i].den * (n - 1)]
     ELSE data[i]]

\* The lines of an input file, parsed: line i holds the value i
Contents(n) == [i \in 1..n |-> [num |-> i, den |-> 1]]

InitAnalysis ==
  /\ \E cfg \in AnalysisConfigs :
       /\ an_sample_rate = cfg.sample_rate
       /\ an_period_size = cfg.period_size
       /\ \E n \in (0..MaxShort) \cup
                   {skip(cfg.sample_rate, cfg.period_size)
                      + fade(cfg.sample_rate, cfg.period_size) + e : e \in 0..MaxExtra} :
            an_contents = Contents(n)
  /\ an_skip = 0
  /\ an_fade = 0
  /\ an_data = <<>>
  /\ an_handed = <<>>
  /\ an_pc = "parsed"
  /\ IdleBridge
  /\ IdleTime
  /\ IdleSimple
  /\ IdleDsp
  /\ IdleFft
  /\ IdlePeriod
  /\ IdleDirect
  /\ IdleBiquad

\* let skip = ..; let fade = ..; let mut data = contents ... .skip(skip).collect()
AnalysisSkip ==
  /\ UNCHANGED OtherThanAnalysis
  /\ an_pc = "parsed"
  /\ an_skip' = skip(an_sample_rate, an_period_size)
  /\ an_fade' = fade(an_sample_rate, an_period_size)
  /\ an_data' = SkipCollect(an_contents, skip(an_sample_rate, an_period_size))
  /\ an_pc' = "skipped"
  /\ UNCHANGED <<an_sample_rate, an_period_size, an_contents, an_handed>>

\* for i in 0..fade { .. }: data[i] panics when data holds fewer than fade
\* values
AnalysisFade ==
  /\ UNCHANGED OtherThanAnalysis
  /\ an_pc = "skipped"
  /\ IF an_fade <= Len(an_data)
     THEN /\ an_data' = FadeIn(an_data, an_fade)
          /\ an_pc' = "faded"
     ELSE /\ an_data' = an_data
          /\ an_pc' = "panicked"
  /\ UNCHANGED <<an_sample_rate, an_period_size, an_contents, an_skip, an_fade, an_handed>>

\* let fft = get_fft(&data); ...; iir(&data.clone(), &mut filtered_data, &mut bq);
\* let fft = get_fft(&filtered_data): the spectra and the filtered series go
\* to the output files
AnalysisTransform ==
  /\ UNCHANGED OtherThanAnalysis
  /\ an_pc = "faded"
  /\ an_handed' = <<[to |-> "get_fft", arg |-> "data", series |-> an_data],
                    [to |-> "iir", arg |-> "data", series |-> an_data],
                    [to |-> "get_fft", arg |-> "filtered_data"]>>
  /\ an_pc' = "analysed"
  /\ UNCHANGED <<an_sample_rate, an_period_size, an_contents, an_skip, an_fade, an_data>>

(***************************************************************************)
(* alsa_period_timings: one thread, one direction, a transfer loop that    *)
(* ends after a duration                                                   *)
(***************************************************************************)
\* Period counts a device negotiates
PeriodTimingsPeriods == {2, 3}
\* args.flag_duration, seconds
Durations == {0, 1}

InitPeriod ==
  /\ pt_mode \in {"capture", "playback"}
  /\ \E ch \in 1..MaxChannels, ps \in 1..MaxPeriod, n \in PeriodTimingsPeriods :
       /\ pt_hw = [period_size |-> ps, buffer_size |-> ps * n, channels |-> ch]
       \* let buf = vec![0; period_size * args.flag_channels as usize]
       /\ pt_buf = Zeros(ps * ch)
  \* the program sets hardware parameters only
  /\ pt_sw = None
  /\ pt_pc = "elevate"
  /\ pt_sched = "other"
  /\ pt_duration \in Durations
  /\ pt_start_ns = 0
  /\ pt_now \in ClockSteps
  /\ pt_xfers = {}
  /\ IdleBridge
  /\ IdleTime
  /\ IdleSimple
  /\ IdleDsp
  /\ IdleFft
  /\ IdleAnalysis
  /\ IdleDirect
  /\ IdleBiquad

\* card_vs_systime: realtime_priority::get_realtime_priority(), then
\* let start_ns = time::precise_time_ns()
PeriodElevate ==
  /\ UNCHANGED OtherThanPeriod
  /\ pt_pc = "elevate"
  /\ \E granted \in BOOLEAN :
       LET r == get_realtime_priority(pt_sched, granted)
       IN /\ pt_sched' = r.sched
          /\ IF r.panic
             THEN pt_pc' = "panicked" /\ pt_start_ns' = pt_start_ns
             ELSE pt_pc' = "transfer" /\ pt_start_ns' = pt_now
  /\ UNCHANGED <<pt_mode, pt_hw, pt_sw, pt_buf, pt_duration, pt_now, pt_xfers>>

\* One iteration of the loop of card_vs_systime: io.readi or io.writei by
\* direction, Err ends the process with exit(1), and the loop is left once
\* more than duration_s seconds have passed since start_ns
PeriodTransfer ==
  /\ UNCHANGED OtherThanPeriod
  /\ pt_pc = "transfer"
  /\ pt_xfers' = pt_xfers \cup
       {[dir |-> IF pt_mode = "capture" THEN "c" ELSE "p", len |-> Len(pt_buf),
         period_size |-> pt_hw.period_size, channels |-> pt_hw.channels, sw |-> pt_sw]}
  /\ \E ok \in BOOLEAN, dt \in ClockSteps :
       /\ pt_now' = pt_now + dt
       /\ pt_pc' = IF ~ok THEN "exit_1"
                   ELSE IF pt_now' - pt_start_ns > pt_duration * NsPerSec THEN "done"
                   ELSE "transfer"
  /\ UNCHANGED <<pt_mode, pt_hw, pt_sw, pt_buf, pt_sched, pt_duration, pt_start_ns>>

(***************************************************************************)
(* alsa_direct_status_test: the loop of the main thread.  The status       *)
(* thread only reads and prints the status of the sessions.                *)
(***************************************************************************)
InitDirect ==
  /\ ds_flag_capture \in BOOLEAN
  /\ ds_flag_playback \in BOOLEAN
  /\ ds_flag_capture \/ ds_flag_playback
  /\ ds_pc = "elevate"
  /\ ds_sched = "other"
  /\ ds_calls = 0
  /\ ds_events = <<>>
  /\ IdleBridge
  /\ IdleTime
  /\ IdleSimple
  /\ IdleDsp
  /\ IdleFft
  /\ IdleAnalysis
  /\ IdlePeriod
  /\ IdleBiquad

\* The loop's next step after the capture part / after the playback part
DirectAfterCapture == IF ds_flag_playback THEN "p_write" ELSE "c_wait"
DirectAfterPlayback == IF ds_flag_capture THEN "c_wait" ELSE "p_write"

\* realtime_priority::get_realtime_priority() before the loop
DirectElevate ==
  /\ UNCHANGED OtherThanDirect
  /\ ds_pc = "elevate"
  /\ \E granted \in BOOLEAN :
       LET r == get_realtime_priority(ds_sched, granted)
       IN /\ ds_sched' = r.sched
          /\ ds_pc' = IF r.panic THEN "panicked"
                      ELSE IF ds_flag_capture THEN "c_start" ELSE "p_write"
  /\ UNCHANGED <<ds_flag_capture, ds_flag_playback, ds_calls, ds_events>>

\* if let Some(pcm_c) = handle_c.as_ref() { pcm_c.start().unwrap(); }
DirectStart ==
  /\ UNCHANGED OtherThanDirect
  /\ ds_pc = "c_start"
  /\ \E ok \in BOOLEAN : ds_pc' = IF ok THEN "c_wait" ELSE "panicked"
  /\ UNCHANGED <<ds_flag_capture, ds_flag_playback, ds_sched, ds_calls, ds_events>>

\* The recovery of direction d: try_recover(e, false).unwrap(), followed
\* for the capture direction by start().unwrap()
DirectRecover(d, next_pc) ==
  \E recovered \in BOOLEAN :
    IF recovered
    THEN /\ ds_events' = Append(ds_events, [dir |-> d, kind |-> "recover",
                                            started |-> (d = "c")])
         /\ ds_pc' = next_pc
    ELSE /\ ds_pc' = "panicked"
         /\ UNCHANGED ds_events

\* if let Err(e) = pcm_c.wait(None) { recover }
DirectCaptureWait ==
  /\ UNCHANGED OtherThanDirect
  /\ ds_pc = "c_wait"
  /\ ds_calls < MaxCalls
  /\ ds_calls' = ds_calls + 1
  /\ \E ok \in BOOLEAN :
       IF ok THEN ds_pc' = "c_read" /\ UNCHANGED ds_events
       ELSE DirectRecover("c", "c_read")
  /\ UNCHANGED <<ds_flag_capture, ds_flag_playback, ds_sched>>

\* if let Err(e) = io.readi(&mut buffer_c) { recover }
DirectCaptureRead ==
  /\ UNCHANGED OtherThanDirect
  /\ ds_pc = "c_read"
  /\ ds_calls < MaxCalls
  /\ ds_calls' = ds_calls + 1
  /\ \E ok \in BOOLEAN :
       IF ok
       THEN /\ ds_events' = Append(ds_events, [dir |-> "c", kind |-> "ok",
                                               started |-> FALSE])
            /\ ds_pc' = DirectAfterCapture
       ELSE DirectRecover("c", DirectAfterCapture)
  /\ UNCHANGED <<ds_flag_capture, ds_flag_playback, ds_sched>>

\* if let Err(e) = io.writei(&buffer_p) { recover }
DirectPlaybackWrite ==
  /\ UNCHANGED OtherThanDirect
  /\ ds_pc = "p_write"
  /\ ds_calls < MaxCalls
  /\ ds_calls' = ds_calls + 1
  /\ \E ok \in BOOLEAN :
       IF ok
       THEN /\ ds_events' = Append(ds_events, [dir |-> "p", kind |-> "ok",
                                               started |-> FALSE])
            /\ ds_pc' = DirectAfterPlayback
       ELSE DirectRecover("p", DirectAfterPlayback)
  /\ UNCHANGED <<ds_flag_capture, ds_flag_playback, ds_sched>>

NextBridge ==
  \/ CaptureElevate
  \/ CaptureReadi
  \/ CaptureWrite
  \/ PlaybackElevate
  \/ PlaybackReadBlocking
  \/ PlaybackWritei
  \/ MainJoin

SpecBridge == InitBridge /\ [][NextBridge]_vars

\* main is blocked in join(): once the capture thread has ended the system
\* wakes main, which cannot be passed over for ever.
FairBridge == SpecBridge /\ WF_vars(MainJoin)

\* Both threads of the loopback are scheduled fairly: a thread that can take
\* its next step is not passed over for ever.
FairThreads ==
  /\ SpecBridge
  /\ WF_vars(CaptureElevate \/ CaptureReadi \/ CaptureWrite)
  /\ WF_vars(PlaybackElevate \/ PlaybackReadBlocking \/ PlaybackWritei)
  /\ WF_vars(MainJoin)

NextTime ==
  \/ TimeElevate
  \/ TimeCaptureWait
  \/ TimeCaptureRead
  \/ TimePlaybackWrite

SpecTime == InitTime /\ [][NextTime]_vars

NextSimple ==
  \/ SimpleElevate
  \/ SimpleCaptureState
  \/ SimpleCaptureRead
  \/ SimplePlaybackState
  \/ SimplePlaybackWrite

SpecSimple == InitSimple /\ [][NextSimple]_vars

NextDsp ==
  \/ DspIir
  \/ DspReset

SpecDsp == InitDsp /\ [][NextDsp]_vars

NextFft ==
  \/ FftGet
  \/ FftWrite

SpecFft == InitFft /\ [][NextFft]_vars

NextAnalysis ==
  \/ AnalysisSkip
  \/ AnalysisFade
  \/ AnalysisTransform

SpecAnalysis == InitAnalysis /\ [][NextAnalysis]_vars

NextPeriod ==
  \/ PeriodElevate
  \/ PeriodTransfer

SpecPeriod == InitPeriod /\ [][NextPeriod]_vars

NextDirect ==
  \/ DirectElevate
  \/ DirectStart
  \/ DirectCaptureWait
  \/ DirectCaptureRead
  \/ DirectPlaybackWrite

SpecDirect == InitDirect /\ [][NextDirect]_vars

(***************************************************************************)
(* analysis: get_biquad, the low-pass coefficients, and iir fed a constant *)
(* input from the zero delay line.  The angle omega = 2 * PI * magic is    *)
(* given by the point (cos omega, sin omega), drawn from the points of the *)
(* unit circle with exact fractions as coordinates.                        *)
(***************************************************************************)
MaxSettle == 4

\* (cos omega, sin omega): magic = 0, two angles below a quarter turn, the
\* quarter turn, two angles between a quarter and a half turn, and one
\* angle above a half turn
Omegas ==
  {[cos |-> Q(1), sin |-> Q(0)],
   [cos |-> QNorm(4, 5), sin |-> QNorm(3, 5)],
   [cos |-> QNorm(3, 5), sin |-> QNorm(4, 5)],
   [cos |-> Q(0), sin |-> Q(1)],
   [cos |-> QNorm(-3, 5), sin |-> QNorm(4, 5)],
   [cos |-> QNorm(-4, 5), sin |-> QNorm(3, 5)],
   [cos |-> QNorm(3, 5), sin |-> QNorm(-4, 5)]}

\* Quality factors
Qs == {QNorm(1, 2), Q(1), Q(2)}

\* The constant input
Constants == {Q(1), Q(-2)}

\* get_biquad with the feedback coefficients stored as computed
get_biquad_feedback_not_negated(omega, q) ==
  LET cos_omega == omega.cos
      alpha == QDiv(omega.sin, QMul(Q(2), q))
      b0 == QDiv(QSub(Q(1), cos_omega), Q(2))
      b1 == QSub(Q(1), cos_omega)
      b2 == QDiv(QSub(Q(1), cos_omega), Q(2))
      a0 == QAdd(Q(1), alpha)
      a1 == QMul(Q(-2), cos_omega)
      a2 == QSub(Q(1), alpha)
  IN NewBiquad([b0 |-> QDiv(b0, a0), b1 |-> QDiv(b1, a0), b2 |-> QDiv(b2, a0),
                a1 |-> QDiv(a1, a0), a2 |-> QDiv(a2, a0)])

\* get_biquad
get_biquad(omega, q) ==
  LET cos_omega == omega.cos
      alpha == QDiv(omega.sin, QMul(Q(2), q))
      b0 == QDiv(QSub(Q(1), cos_omega), Q(2))
      b1 == QSub(Q(1), cos_omega)
      b2 == QDiv(QSub(Q(1), cos_omega), Q(2))
      a0 == QAdd(Q(1), alpha)
      a1 == QMul(Q(-2), cos_omega)
      a2 == QSub(Q(1), alpha)
  IN NewBiquad([b0 |-> QDiv(b0, a0), b1 |-> QDiv(b1, a0), b2 |-> QDiv(b2, a0),
                a1 |-> QDiv(QNeg(a1), a0), a2 |-> QDiv(QNeg(a2), a0)])

InitBiquad ==
  /\ gb_omega \in Omegas
  /\ gb_q \in Qs
  /\ gb_c \in Constants
  /\ gb_bq = None
  /\ gb_output = <<>>
  /\ gb_pc = "start"
  /\ IdleBridge
  /\ IdleTime
  /\ IdleSimple
  /\ IdleDsp
  /\ IdleFft
  /\ IdleAnalysis
  /\ IdlePeriod
  /\ IdleDirect

\* let mut bq = get_biquad(magic, q)
BiquadGet ==
  /\ gb_pc = "start"
  /\ gb_bq' = get_biquad(gb_omega, gb_q)
  /\ gb_pc' = "built"
  /\ UNCHANGED <<gb_omega, gb_q, gb_c, gb_output>>
  /\ UNCHANGED OtherThanBiquad

\* iir(&input, &mut output, &mut bq) with input the constant gb_c, n values
BiquadFilter ==
  /\ gb_pc = "built"
  /\ \E n \in 1..MaxSettle :
       LET r == iir([i \in 1..n |-> gb_c], ZerosF64(n), gb_bq)
       IN /\ gb_output' = r.output
          /\ gb_bq' = r.bq
  /\ gb_pc' = "filtered"
  /\ UNCHANGED <<gb_omega, gb_q, gb_c>>
  /\ UNCHANGED OtherThanBiquad

NextBiquad == BiquadGet \/ BiquadFilter

SpecBiquad == InitBiquad /\ [][NextBiquad]_vars

\* Any one of the five programs that run a stream loop
InitLoops ==
  \/ InitBridge
  \/ InitTime
  \/ InitSimple
  \/ InitPeriod
  \/ InitDirect

NextLoops ==
  \/ NextBridge
  \/ NextTime
  \/ NextSimple
  \/ NextPeriod
  \/ NextDirect

SpecLoops == InitLoops /\ [][NextLoops]_vars

(***************************************************************************)
(* Properties                                                              *)
(***************************************************************************)

\* C1: in the threaded loopback the samples the playback thread obtains
\* from the bridge are exactly the samples the capture thread passed to
\* write, in order, none lost or duplicated: at every moment the samples
\* passed to write are the samples obtained so far followed by the samples
\* still waiting in the ring.
C1_ExactlyOnceDelivery == obtained \o rb = passed

\* C2: the bridge write waits until the whole block fits: every write call
\* that has returned stored the whole block, and none failed because the
\* ring was full.
C2_WriteStoresWholeBlock ==
  wr_res # "none" => (wr_res = "Ok" /\ wr_cnt = Len(buf_c))

\* C3: read_blocking returns only with the whole playback buffer filled:
\* whenever the playback loop is about to hand buf to the device, every
\* sample of buf was read from the bridge in this iteration.
C3_ReadFillsWholeBuffer ==
  pc_p = "writei" => size = Len(buf_p)

\* C4: a transfer error is recoverable, it never ends the loop, the thread
\* or the process: no thread of the threaded loopback is ended by a
\* transfer error.
C4_TransferErrorNeverEndsThread ==
  why_c # "transfer" /\ why_p # "transfer"

\* C5: every recovery is counted where it can be seen: in the simple
\* loopback the number of recoveries (prepare calls) of a direction equals
\* the number of recoveries the loop reports for that direction.
C5_EveryRecoveryCounted ==
  sl_pc # "panicked" =>
    (sl_prepares_c = sl_reports_c /\ sl_prepares_p = sl_reports_p)

\* The frames the successful transfers of direction d returned since the
\* last recovery of d (or since start), from the history of the loop
RECURSIVE FramesSinceRecovery(_, _)
FramesSinceRecovery(ev, d) ==
  IF ev = <<>> THEN 0
  ELSE LET e == ev[Len(ev)]
           front == SubSeq(ev, 1, Len(ev) - 1)
       IN IF e.dir # d THEN FramesSinceRecovery(front, d)
          ELSE IF e.kind = "recover" THEN 0
          ELSE e.len + FramesSinceRecovery(front, d)

\* C6: in the timestamp loop a direction's frame counter equals the sum of
\* the frame counts its successful transfers returned since its last
\* recovery (or since start), and right after a recovery the counter is 0
\* and the previous-status sample of the direction is absent.
C6_FrameCounterSinceRecovery ==
  /\ frames_count_c = FramesSinceRecovery(events, "c")
  /\ frames_count_p = FramesSinceRecovery(events, "p")
  /\ (events # <<>> /\ events[Len(events)].kind = "recover") =>
       IF events[Len(events)].dir = "c"
       THEN frames_count_c = 0 /\ last_status_c = None
       ELSE frames_count_p = 0 /\ last_status_p = None

\* C6 witness: a capture transfer, then a capture recovery, then capture
\* transfers that count again from 0.
C6_Witness ==
  /\ at_pc # "panicked"
  /\ frames_count_c > 0
  /\ \E i, j, k \in DOMAIN events :
       /\ i < j /\ j < k
       /\ events[i].dir = "c" /\ events[i].kind = "ok"
       /\ events[j].dir = "c" /\ events[j].kind = "recover"
       /\ events[k].dir = "c" /\ events[k].kind = "ok"

\* Event i of the history is the first successful transfer of its direction
\* after the start of the stream or after a recovery
FirstTransfer(ev, i) ==
  /\ ev[i].kind = "ok"
  /\ \A j \in 1..(i - 1) :
       ev[j].dir = ev[i].dir =>
         \E k \in j..(i - 1) : ev[k].dir = ev[i].dir /\ ev[k].kind = "recover"

\* C7: the first successful transfer of a direction after stream start and
\* after every recovery writes no rate/drift record, for capture and for
\* playback.
C7_NoRecordOnFirstSample ==
  \A i \in DOMAIN events : FirstTransfer(events, i) => ~events[i].wrote

\* C8: every transfer call uses a buffer whose length is the negotiated
\* period_size times channel_count of the session it is transferred
\* against.
C8_BufferIsOnePeriod ==
  \A x \in xfers : x.len = x.period_size * x.channels

\* C9: iir is length-preserving and rejects a mismatch: with equal lengths
\* the output holds one value per input value, and with a pre-allocated
\* output of another length the caller observes a failure.
C9_MismatchRejected ==
  d_ret # "none" =>
    /\ Len(d_output) = Len(d_prealloc)
    /\ Len(d_input) # Len(d_prealloc) => d_ret = "failure"

\* C10: reset zeroes the delay line and keeps the coefficients, so that
\* after any iir calls followed by reset the filter is the new filter with
\* the same coefficients, and filtering a series with it gives the output
\* and the delay line the new filter gives.
C10_ResetGivesNewFilter ==
  /\ d_phase = "reset" => bq = NewBiquad(coefs)
  /\ d_phase = "filtered_after_reset" =>
       LET r == iir(d_input, d_prealloc, NewBiquad(coefs))
       IN d_output = r.output /\ bq = r.bq

\* C10 witness: a filter whose delay line was not zero is reset and then
\* filters a series of the longest length.
C10_Witness ==
  /\ d_phase = "filtered_after_reset"
  /\ d_dirty
  /\ Len(d_input) = MaxLen
  /\ Len(d_prealloc) = MaxLen

\* x is the modulus of the complex number re + i*im
IsModulus(x, re, im) ==
  /\ ~R2Pos(R2Neg(x))
  /\ R2Mul(x, x) = R2Add(R2Mul(re, re), R2Mul(im, im))

\* C11: get_fft on a series of N points returns exactly floor(N/2) values,
\* the bins 0 .. N/2-1 of the unnormalised forward transform in order, each
\* the modulus of the complex transform output at that bin.
C11_SpectrumIsModulus ==
  sp_pc # "data" =>
    /\ Len(sp_fft) = Len(sp_data) \div 2
    /\ \A i \in DOMAIN sp_fft :
         LET bin == ForwardBin(sp_data, i - 1)
         IN IsModulus(sp_fft[i], bin.re, bin.im)

\* C12: for a pure sinusoid of any phase that makes k cycles over the
\* series, the spectrum get_fft returns has its largest value at bin k,
\* within one bin: every bin that holds the largest value is one of
\* k-1, k, k+1.
C12_SinusoidPeakAtItsBin ==
  (sp_pc # "data" /\ sp_sine # None) =>
    \A i \in DOMAIN sp_fft :
      (\A j \in DOMAIN sp_fft : ~R2Less(sp_fft[i], sp_fft[j])) =>
        (i - 1) \in (sp_sine.cycles - 1)..(sp_sine.cycles + 1)

\* C19: every line of a spectrum output file carries a normalized
\* frequency f with 0 <= f < 1, whatever the length of the spectrum.
C19_FrequencyBelowOne ==
  \A i \in DOMAIN sp_file :
    /\ sp_file[i].den > 0
    /\ 0 <= sp_file[i].num
    /\ sp_file[i].num < sp_file[i].den

\* C13: for sample_rate = 48000 and period_size = 256 the analysis
\* discards exactly the first 93 values of the input series and fades in
\* exactly the next 187: value i of them (i = 0 .. 186) is multiplied by
\* i / 186, which is 0 for the first, 1 for the last and grows linearly in
\* between; the values after them are left as they are.  (An input of
\* fewer than 93 values is discarded whole.)
C13_Skip93Fade187 ==
  (an_sample_rate = 48000 /\ an_period_size = 256) =>
    /\ an_pc = "skipped" =>
         /\ Len(an_contents) >= 93 => Len(an_data) = Len(an_contents) - 93
         /\ Len(an_contents) < 93 => an_data = <<>>
         /\ \A i \in DOMAIN an_data : an_data[i] = an_contents[93 + i]
    /\ an_pc = "faded" =>
         /\ Len(an_data) = Len(an_contents) - 93
         /\ \A i \in DOMAIN an_data :
              LET x == an_contents[93 + i]
              IN IF i <= 187
                 THEN an_data[i].num * (x.den * 186) = (x.num * (i - 1)) * an_data[i].den
                        /\ an_data[i].den # 0
                 ELSE an_data[i] = x
         /\ an_data[1].num = 0
         /\ an_data[187].num = an_contents[93 + 187].num * an_data[187].den

\* C13 witness: an input of more than 93 + 187 values recorded at 48000 Hz
\* with periods of 256 frames has been skipped and faded.
C13_Witness ==
  /\ an_sample_rate = 48000
  /\ an_period_size = 256
  /\ an_pc = "faded"
  /\ Len(an_contents) > 93 + 187

\* True rates of a capture device, in frames per clock tick
Rates == [num : {1, 2, 3}, den : {1, 2}]

\* The frames the capture device had delivered or was holding when event i
\* of the history took its status snapshot, counted from the start of the
\* stream or its last recovery
CapturedAt(ev, i) == FramesSinceRecovery(SubSeq(ev, 1, i), "c") + ev[i].snap.delay

\* Events j and i of the history are consecutive status snapshots of the
\* capture direction
Consecutive(ev, j, i) ==
  /\ j < i
  /\ ev[j].snap # None
  /\ ev[i].snap # None
  /\ \A k \in (j + 1)..(i - 1) : ev[k].dir # "c"

\* The capture device ran at the constant rate R with zero jitter
ConstantRate(ev, R) ==
  \A i, j \in DOMAIN ev :
    Consecutive(ev, j, i) =>
      (CapturedAt(ev, i) - CapturedAt(ev, j)) * R.den = R.num * (ev[i].snap.t - ev[j].snap.t)

\* C14: for a capture timestamp sequence with constant true rate R and zero
\* jitter, every rate estimate written (frames per second, the frame
\* difference divided by the f64 time difference) is exactly R.
C14_RateEstimateIsTrueRate ==
  \A R \in Rates :
    ConstantRate(events, R) =>
      \A k \in DOMAIN out_file :
        out_file[k].dir = "c" =>
          out_file[k].captured_frames_from_last * FloatGrid * R.den
            = R.num * NsPerSec * out_file[k].system_elapsed_from_last

\* C15: every playback session is configured, before its first write, with
\* a start threshold equal to the actual buffer_size minus the actual
\* period_size read back from the device: every write call of the period
\* timer is made on a session with that threshold.
C15_StartThresholdBeforeWrite ==
  \A x \in pt_xfers :
    x.dir = "p" => x.sw = [start_threshold |-> pt_hw.buffer_size - pt_hw.period_size]

\* C16: every thread that runs a stream loop has requested FIFO real-time
\* scheduling for itself, and the request was granted, before the first
\* transfer call of its loop: a thread that is in its loop, or has made a
\* transfer or was ended in its loop, runs under FIFO.  In the threaded
\* loopback this holds for the capture thread and the playback thread each
\* on its own.
C16_ElevatedBeforeFirstTransfer ==
  /\ (pc_c \in {"readi", "write"} \/ why_c \in {"transfer", "bridge"}
        \/ next_sample > 1 \/ passed # <<>>) => sched_c = "fifo"
  /\ (pc_p \in {"read_blocking", "writei"} \/ why_p \in {"transfer", "bridge"}
        \/ obtained # <<>> \/ played # <<>>) => sched_p = "fifo"
  /\ (at_pc \in {"c_wait", "c_read", "p_write"} \/ xfers # {} \/ events # <<>>)
       => at_sched = "fifo"
  /\ (sl_pc \in {"c_state", "c_read", "p_state", "p_write"} \/ sl_xfers # {})
       => sl_sched = "fifo"
  /\ (pt_pc \in {"transfer", "done", "exit_1"} \/ pt_xfers # {}) => pt_sched = "fifo"
  /\ (ds_pc \in {"c_start", "c_wait", "c_read", "p_write"} \/ ds_events # <<>>)
       => ds_sched = "fifo"

\* C16 witness: in the threaded loopback the capture thread, elevated, has
\* passed samples to the bridge while the playback thread has not yet asked
\* for its own elevation.
C16_Witness ==
  /\ passed # <<>>
  /\ sched_c = "fifo"
  /\ pc_p = "elevate"
  /\ sched_p = "other"

\* A step of a stream loop of the threaded loopback: a device transfer or
\* a bridge operation
LoopStep == CaptureReadi \/ CaptureWrite \/ PlaybackReadBlocking \/ PlaybackWritei

\* C17: a denied real-time elevation is fatal: once the elevation request
\* of the capture thread or of the playback thread has failed, no thread
\* performs a device transfer or a bridge operation, and the process
\* terminates.
C17_DeniedElevationIsFatal ==
  /\ [][(why_c = "sched" \/ why_p = "sched") => ~LoopStep]_vars
  /\ (why_c = "sched" \/ why_p = "sched") ~> (process = "exited")

\* C18 as stated: after a bridge write or a bridge read has failed neither
\* thread performs another transfer, and the whole process ends.
C18_NoTransferAfterBridgeFailure ==
  /\ [][(why_c = "bridge" \/ why_p = "bridge") => ~LoopStep]_vars
  /\ (why_c = "bridge" \/ why_p = "bridge") ~> (process = "exited")

\* C18, amended: a failed bridge write ends the capture thread at once,
\* which performs no other transfer, and ends the process as soon as
\* main's join has returned, after which no thread does anything; until
\* then the playback thread may still transfer what the ring holds.
C18_BridgeWriteFailureEndsProcess ==
  /\ [][why_c = "bridge" => ~(CaptureReadi \/ CaptureWrite)]_vars
  /\ (why_c = "bridge") ~> (process = "exited")
  /\ [][process = "exited" => ~LoopStep]_vars

\* C18 witness: the ring was full when the capture thread wrote, and the
\* process has ended.
C18_Witness ==
  /\ why_c = "bridge"
  /\ wr_res = "Full"
  /\ process = "exited"

\* b0 + b1 + b2 = 1 - a1 - a2, the feedback coefficients being the stored,
\* added ones
DcGainIdentity(b) == QAdd(QAdd(b.b0, b.b1), b.b2) = QSub(QSub(Q(1), b.a1), b.a2)

\* The steady-state answer c * (b0 + b1 + b2) / (1 - a1 - a2) exists
DcGainDefined(b) == QSub(QSub(Q(1), b.a1), b.a2) # Q(0)

\* Both roots of z^2 - a1 z - a2 lie inside the unit circle
Stable(b) ==
  /\ QLess(QAbs(b.a2), Q(1))
  /\ QLess(QAbs(b.a1), QSub(Q(1), b.a2))

\* From the third value on, the distance of the output from c follows
\* d[k] = a1 d[k-1] + a2 d[k-2]
DeviationDecays(output, c, b) ==
  \A k \in 3..Len(output) :
    QSub(output[k], c) =
      QAdd(QMul(b.a1, QSub(output[k - 1], c)), QMul(b.a2, QSub(output[k - 2], c)))

\* The constant input c settles to the output c: c is the steady-state
\* answer and the distance from it dies out
SettlesTo(output, c, b) ==
  /\ DcGainDefined(b)
  /\ Stable(b)
  /\ DeviationDecays(output, c, b)

\* C20 as stated: for any cutoff and quality factor the coefficients of
\* get_biquad satisfy b0 + b1 + b2 = 1 - a1 - a2, and a constant input c
\* fed through iir from a zero delay line settles to the output c.
C20_AnyCutoffSettles ==
  /\ gb_pc \in {"built", "filtered"} => DcGainIdentity(gb_bq)
  /\ gb_pc = "filtered" => SettlesTo(gb_output, gb_c, gb_bq)

\* C20, amended: the identity b0 + b1 + b2 = 1 - a1 - a2 holds for every
\* cutoff and quality factor; a constant input c settles to the output c
\* for a cutoff strictly between 0 and half the sample rate
\* (sin omega > 0) and a positive quality factor; at cutoff 0 the
\* coefficients b0, b1, b2 are 0 and the output stays 0.
C20_DcGainOneInsideNyquist ==
  /\ gb_pc \in {"built", "filtered"} => DcGainIdentity(gb_bq)
  /\ gb_pc = "filtered" /\ QLess(Q(0), gb_omega.sin) /\ QLess(Q(0), gb_q) =>
       SettlesTo(gb_output, gb_c, gb_bq)
  /\ gb_pc = "filtered" /\ gb_omega.cos = Q(1) =>
       /\ <<gb_bq.b0, gb_bq.b1, gb_bq.b2>> = <<Q(0), Q(0), Q(0)>>
       /\ \A k \in 1..Len(gb_output) : gb_output[k] = Q(0)

\* A filter of a cutoff inside the range has answered at least three values
\* of a constant input and has not reached it yet
C20_Witness ==
  /\ gb_pc = "filtered"
  /\ QLess(Q(0), gb_omega.sin)
  /\ Len(gb_output) >= 3
  /\ gb_output[Len(gb_output)] # gb_c

\* The capture transfer call of the simple loopback on a capture device
\* that a recovery prepared and nothing has started since
SimpleReadOfUnstartedCapture ==
  /\ SimpleCaptureRead
  /\ sl_state_c = "Prepared"
  /\ sl_prepares_c > 0

\* C21: after every recovery of a capture stream an explicit start() is
\* issued on the capture device before the next capture transfer call, in
\* every stream loop that recovers a capture stream.
C21_StartAfterCaptureRecovery ==
  /\ [](\A i \in DOMAIN events :
          events[i].kind = "recover" /\ events[i].dir = "c" => events[i].started)
  /\ [](\A i \in DOMAIN ds_events :
          ds_events[i].kind = "recover" /\ ds_events[i].dir = "c" => ds_events[i].started)
  /\ [][~SimpleReadOfUnstartedCapture]_vars

\* The step is a recovery of direction d in alsa_audio_time
TimeRecovery(d) ==
  /\ Len(events') = Len(events) + 1
  /\ events'[Len(events')].kind = "recover"
  /\ events'[Len(events')].dir = d

\* The transfer calls of direction d made so far
TransfersOf(x, d) == {t \in x : t.dir = d}

\* C22: recovery is local to the direction where the error occurred: a
\* capture recovery leaves the playback frame counter, error counter,
\* previous-status sample and device untouched, a playback recovery leaves
\* the capture counterparts untouched, and the other direction's transfer
\* of the same iteration is still performed: after a capture recovery the
\* loop goes on to the read and then to the playback write, and a playback
\* recovery comes after the capture read of its iteration.
C22_RecoveryIsLocal ==
  [][/\ TimeRecovery("c") =>
          /\ UNCHANGED <<frames_count_p, xruns_p, last_status_p>>
          /\ TransfersOf(xfers', "p") = TransfersOf(xfers, "p")
          /\ at_pc = "c_wait" => at_pc' = "c_read"
          /\ at_pc = "c_read" /\ flag_playback => at_pc' = "p_write"
     /\ TimeRecovery("p") =>
          /\ UNCHANGED <<frames_count_c, xruns_c, last_status_c>>
          /\ TransfersOf(xfers', "c") = TransfersOf(xfers, "c")
          /\ flag_capture =>
               /\ events # <<>>
               /\ events[Len(events)].dir = "c"
               /\ at_pc' = "c_wait"]_vars

\* A capture read failed and was recovered while the playback direction
\* had counted frames, and the playback write of the same iteration
\* followed and succeeded
C22_Witness ==
  \E i \in DOMAIN events :
    /\ i + 1 \in DOMAIN events
    /\ i > 1
    /\ events[i].kind = "recover" /\ events[i].dir = "c"
    /\ events[i + 1].kind = "ok" /\ events[i + 1].dir = "p"
    /\ frames_count_p > events[i + 1].len
    /\ frames_count_c = 0
    /\ xruns_c > 0

\* The index of the latest event of the capture direction, 0 if there is
\* none
LastCaptureEvent(ev) ==
  IF \E i \in DOMAIN ev : ev[i].dir = "c"
  THEN CHOOSE i \in DOMAIN ev : ev[i].dir = "c" /\ \A k \in (i + 1)..Len(ev) : ev[k].dir # "c"
  ELSE 0

\* The previous-status sample made of the snapshot of event i
SampleOf(ev, i) ==
  [audio_htstamp |-> Timespec(ev[i].snap.t),
   htstamp |-> Timespec(ev[i].snap.t),
   captured_frames |-> CapturedAt(ev, i)]

\* The step is a successful capture transfer with output enabled
CaptureSnapshotStep ==
  /\ Len(events') = Len(events) + 1
  /\ events'[Len(events')].dir = "c"
  /\ events'[Len(events')].kind = "ok"
  /\ events'[Len(events')].snap # None

DirectForm(b, x0, x1, x2, y1, y2) ==
  QAdd(QMul(b.b0, x0),
       QAdd(QMul(b.b1, x1),
            QAdd(QMul(b.b2, x2), QAdd(QMul(b.a1, y1), QMul(b.a2, y2)))))

\* The step is an iir call on an output of the input's length
IirCallStep ==
  /\ d_calls' = d_calls + 1
  /\ Len(d_input') = Len(d_prealloc')

\* C24: iir computes, for every index n of the input,
\* y[n] = b0*x[n] + b1*x[n-1] + b2*x[n-2] + a1*y[n-1] + a2*y[n-2], the
\* values before index 0 being the delay line at the time of the call, and
\* after the call the delay line holds the last two inputs (x1 newest) and
\* the last two outputs (y1 newest).  xs and ys are the input and the
\* output with the two delay-line values of the call put in front.
C24_DirectFormRecurrence ==
  [][IirCallStep =>
       LET xs == <<bq.x2, bq.x1>> \o d_input'
           ys == <<bq.y2, bq.y1>> \o d_output'
           N == Len(d_input')
       IN /\ Len(d_output') = N
          /\ \A n \in 1..N :
               ys[n + 2] = DirectForm(bq, xs[n + 2], xs[n + 1], xs[n], ys[n + 1], ys[n])
          /\ bq'.x1 = xs[N + 2] /\ bq'.x2 = xs[N + 1]
          /\ bq'.y1 = ys[N + 2] /\ bq'.y2 = ys[N + 1]
          /\ <<bq'.b0, bq'.b1, bq'.b2, bq'.a1, bq'.a2>> = <<bq.b0, bq.b1, bq.b2, bq.a1, bq.a2>>]_vars

\* A second call of one value on a filter that an earlier call left with a
\* delay line that is not zero: the older input of the delay line is the
\* newest input of the earlier call
C24_Witness ==
  /\ d_calls >= 2
  /\ d_phase = "filtered"
  /\ Len(d_input) = 1
  /\ Len(d_prealloc) = 1
  /\ bq.x2 # Q(0)
  /\ bq.y2 # Q(0)

\* series[i] = input[s+i] * i/(f-1) for 0 <= i < f and input[s+i] for
\* i >= f, the indices counted from 0 as in the source
SkippedThenFaded(series, input, s, f) ==
  /\ Len(series) = Len(input) - s
  /\ \A i \in 0..(Len(series) - 1) :
       series[i + 1] =
         IF i < f
         THEN [num |-> input[s + i + 1].num * i, den |-> input[s + i + 1].den * (f - 1)]
         ELSE input[s + i + 1]

\* C25: the analysis applies skip before fade and both before any filtering
\* or transform: the series handed to get_fft and to iir is the input
\* without its first s values, faded over its first f values, and the only
\* other call, the second get_fft, is handed the output of iir; nothing is
\* handed over before the fade is done.
C25_SkipThenFadeThenTransform ==
  /\ an_pc \in {"parsed", "skipped", "faded", "panicked"} => an_handed = <<>>
  /\ an_pc = "analysed" =>
       /\ Len(an_handed) = 3
       /\ \A k \in DOMAIN an_handed :
            IF an_handed[k].arg = "data"
            THEN SkippedThenFaded(an_handed[k].series, an_contents, an_skip, an_fade)
            ELSE /\ an_handed[k].to = "get_fft"
                 /\ \E j \in 1..(k - 1) : an_handed[j].to = "iir"

\* An input with values after the skipped and the faded ones, skipped over
\* one value at least and faded over three at least, has been handed to
\* get_fft and to iir
C25_Witness ==
  /\ an_pc = "analysed"
  /\ an_skip >= 1
  /\ an_fade >= 3
  /\ Len(an_contents) > an_skip + an_fade
  /\ an_handed[1].to = "get_fft"
  /\ an_handed[2].to = "iir"

\* C26: for every sample rate and period size the number of skipped values
\* is skip_seconds * sample_rate / period_size rounded to the nearest
\* integer, and the number of faded values is
\* fade_seconds * sample_rate / period_size rounded to the nearest integer.
C26_SkipAndFadeRounded ==
  an_pc \in {"skipped", "faded", "analysed"} =>
    /\ an_skip = RoundDiv(an_sample_rate * skip_seconds.num, skip_seconds.den * an_period_size)
    /\ an_fade = RoundDiv(an_sample_rate * fade_seconds.num, fade_seconds.den * an_period_size)

\* C27: there is no cancellation: no stream loop of any program ends by
\* its own decision; every loop keeps issuing transfer calls until the
\* process is terminated from outside.  The loops of the threaded loopback,
\* the simple loopback, alsa_audio_time and alsa_direct_status_test have
\* no step that leaves them other than a panic; the loop of the period
\* timer is left at "done".
C27_NoLoopEndsItself == pt_pc # "done"

\* Every elevation is granted and every device transfer returns Ok
TransfersReturn ==
  [](why_c \notin {"sched", "transfer"} /\ why_p \notin {"sched", "transfer"})

\* C28: in the threaded loopback, when both threads are scheduled fairly
\* and every device transfer returns, the threads never deadlock on the
\* bridge and every block written to the bridge is eventually read by the
\* playback thread; the playback thread waits, and does not fail, while
\* the bridge is empty, and a thread is affected by the other only through
\* the bridge being full or empty, which makes it wait: no thread is ended
\* by the bridge, and every sample the bridge has stored is obtained by
\* the playback thread in the end.
C28_EveryBlockIsRead ==
  TransfersReturn =>
    /\ [](why_c # "bridge" /\ why_p # "bridge")
    /\ \A n \in 1..MaxSamples :
         (Len(obtained) + Len(rb) >= n) ~> (Len(obtained) >= n)

\* C29: in write_timestamp_capture the unsigned arithmetic never wraps or
\* underflows: for every sequence of successful capture transfers with no
\* recovery between them and every sequence of reported delay values, the
\* delay added to the frame counter is not negative and captured_frames is
\* not smaller than the captured_frames of the retained previous sample.
C29_CapturedFramesNeverWrap ==
  /\ \A i \in DOMAIN events : events[i].snap # None => events[i].snap.delay >= 0
  /\ \A i, j \in DOMAIN events :
       (Consecutive(events, j, i) /\ \A k \in j..i : events[k].kind = "ok") =>
         CapturedAt(events, i) >= CapturedAt(events, j)


\* C30: the fade-in of the analysis never accesses an index past the end of
\* the series that remains after the skip and never divides by zero: for
\* every input length and every sample_rate and period_size, every index i
\* the fade loop touches satisfies i < len(series), so the loop never
\* panics, and fade - 1 is not 0 where the loop has divided by it.
C30_FadeInBoundsAndDivisor ==
  /\ an_pc # "panicked"
  /\ an_pc = "skipped" => \A i \in 0..(an_fade - 1) : i < Len(an_data)
  /\ (an_pc \in {"faded", "analysed"} /\ an_fade > 0) => an_fade - 1 # 0

\* The two iir calls of d_chain, made one after the other on one Biquad
\* with no reset between them, against one iir call on the whole series
\* made on the Biquad the first call found
ChainIsOneCall ==
  Len(d_chain) = 2 =>
    LET whole == d_chain[1].input \o d_chain[2].input
        r == iir(whole, ZerosF64(Len(whole)), d_chain[1].before)
    IN /\ d_chain[2].before = d_chain[1].after
       /\ bq = d_chain[2].after
       /\ r.output = d_chain[1].output \o d_chain[2].output
       /\ r.bq = bq

\* C31: the filter state carries over between calls: for every series
\* split at any point into two parts, calling iir on the first part and
\* then on the second part with the same Biquad, no reset in between,
\* produces the same outputs and the same final delay line as one iir call
\* on the whole series.  Stated of two calls that were made one after the
\* other, and of every call made against every split of its series, the
\* delay line at the time of the call being whatever earlier calls left.
C31_StateCarriesOverCalls ==
  /\ []ChainIsOneCall
  /\ [][IirCallStep =>
          \A k \in 0..Len(d_input') :
            LET first == iir(SubSeq(d_input', 1, k), ZerosF64(k), bq)
                second == iir(SubSeq(d_input', k + 1, Len(d_input')),
                              ZerosF64(Len(d_input') - k), first.bq)
            IN /\ first.output \o second.output = d_output'
               /\ second.bq = bq']_vars

\* Two calls of two values or more each were made one after the other with
\* no reset between them, the second on a delay line that held values of
\* the first
C31_Witness ==
  /\ Len(d_chain) = 2
  /\ Len(d_chain[1].input) >= 2
  /\ Len(d_chain[2].input) >= 2
  /\ d_chain[2].before.x2 # Q(0)
  /\ d_chain[2].before.y2 # Q(0)
  /\ d_chain[2].after # d_chain[2].before

\* C32: in the single-threaded simple loopback every buffer written to the
\* playback device holds frames that a successful capture read delivered in
\* the same loop iteration: after a failed capture read the content of an
\* earlier iteration is never written to playback again, so no two writes
\* carry the same frames.
C32_PlaybackWritesFreshFrames ==
  \A i \in DOMAIN sl_played :
    /\ sl_played[i].read_ok
    /\ \A j \in 1..(i - 1) : sl_played[j].buf # sl_played[i].buf

====
